---- MODULE Spec2Model ----
(***************************************************************************)
(* A model of the oidc relying-party package of hashicorp/cap.             *)
(*                                                                         *)
(*   St / NewState / IsExpired     src/unnamed/part_000                    *)
(*   TestProvider (the test IdP)   src/oidc/provider_test.go (1451-2117)   *)
(*   Provider (AuthURL, Exchange, VerifyIDToken, validRedirect): its       *)
(*   source file is not part of src/; it is modelled from spec.md 4.G and  *)
(*   from the expectations of src/oidc/provider_test.go (1-1406).          *)
(*                                                                         *)
(* Encodings.  A Go string is a TLA+ string.  A nil-able value (pointer,   *)
(* interface, optional JWT claim) is a sequence of length 0 (nil/absent)   *)
(* or 1.  A []string is a sequence of strings.  Times and durations are    *)
(* integers counted in ticks, Second ticks to the second.                  *)
(***************************************************************************)
EXTENDS Integers, Sequences, FiniteSets, TLC

VARIABLES
    now,    \* the wall clock, time.Now(), in ticks
    p,      \* the Provider under test
    req,    \* the Request (St) of the authentication attempt: <<>> or <<St>>
    res,    \* the pending return values of the last call: <<>> or <<record>>
    idp,    \* the TestProvider the tests started, as its Set* calls left it
    calls   \* the VerifyIDToken calls in progress on other threads

vars == <<now, p, req, res, idp, calls>>

---------------------------------------------------------------------------
(* Bounds of the model *)

\* ticks per second: the resolution of the clock
Second == 2
\* the wall clock runs from StartTime to StartTime + MaxTime ticks
MaxTime == 3
\* NewState is called with expireIn up to MaxExpireIn ticks
MaxExpireIn == 3

---------------------------------------------------------------------------
(* Error kinds (spec.md 7; the Err* values the tests compare with) *)

NoErr == "nil"
ErrNilParameter == "NilParameter"
ErrInvalidParameter == "InvalidParameter"
ErrInvalidIssuer == "InvalidIssuer"
ErrInvalidAudience == "InvalidAudience"
ErrInvalidAuthorizedParty == "InvalidAuthorizedParty"
ErrInvalidNonce == "InvalidNonce"
ErrInvalidIssuedAt == "InvalidIssuedAt"
ErrInvalidNotBefore == "InvalidNotBefore"
ErrExpiredToken == "ExpiredToken"
ErrExpiredAuthTime == "ExpiredAuthTime"
ErrMissingClaim == "MissingClaim"
ErrMissingIDToken == "MissingIDToken"
ErrMissingAccessToken == "MissingAccessToken"
ErrUnsupportedAlg == "UnsupportedAlg"
ErrInvalidSignature == "InvalidSignature"
ErrInvalidJWKs == "InvalidJWKs"
ErrUnauthorizedRedirectURI == "UnauthorizedRedirectURI"
ErrInvalidSubject == "InvalidSubject"
ErrNotFound == "NotFound"
\* a non-2xx answer of the token endpoint, surfaced with its status line
ErrStatus(code) == IF code = 401 THEN "401 Unauthorized" ELSE "400 Bad Request"

---------------------------------------------------------------------------
(* Helpers *)

StrListContains(list, s) == \E i \in 1..Len(list) : list[i] = s

Overlap(a, b) == \E i \in 1..Len(a) : StrListContains(b, a[i])

\* time.Time.Unix(): whole seconds, the sub-second part dropped (kept in ticks)
Unix(t) == (t \div Second) * Second

---------------------------------------------------------------------------
(* ID generator (spec.md 4.A) and PKCE verifier (spec.md 4.C) *)

\* the values the entropy source can yield for one identifier
Entropy == {"a", "b"}

\* NewID(WithPrefix(prefix)): the prefix, an underscore, the random part
NewID(prefix, rnd) == prefix \o "_" \o rnd

\* BASE64URL(SHA256(verifier)) without padding: an injective digest
S256Challenge(verifier) == "S256-" \o verifier

NewCodeVerifier(rnd) ==
    [verifier |-> rnd, challenge |-> S256Challenge(rnd), method |-> "S256"]

---------------------------------------------------------------------------
(* Request: type St (src/unnamed/part_000) *)

\* StateExpirySkew = 1 * time.Second
StateExpirySkew == 1 * Second

\* stDefaults(): no option set
stDefaults ==
    [withNowFunc |-> <<>>, withScopes |-> <<>>, withAudiences |-> <<>>,
     withImplicitFlow |-> <<>>, withVerifier |-> <<>>, withMaxAge |-> 0]

\* WithImplicitFlow(args...): a pointer to implicitFlow{withAccessToken}
WithImplicitFlow(opts, withAccessToken) ==
    [opts EXCEPT !.withImplicitFlow = <<[withAccessToken |-> withAccessToken]>>]

\* WithPKCE(v): v may be the nil interface value, <<>>
WithPKCE(opts, v) == [opts EXCEPT !.withVerifier = v]

WithStAudiences(opts, auds) == [opts EXCEPT !.withAudiences = auds]

WithStScopes(opts, scopes) == [opts EXCEPT !.withScopes = scopes]

\* WithMaxAge(seconds), in ticks here
WithMaxAge(opts, maxAge) == [opts EXCEPT !.withMaxAge = maxAge]

\* WithNow(now): the clock of the request is the function now, which
\* returns t
WithNow(opts, t) == [opts EXCEPT !.withNowFunc = <<t>>]

\* fault: the request reads a clock that stands at zero
St_now_zero(s, wall) == 0

\* St.now(): the injected clock (a function returning t) or the wall clock
St_now(s, wall) == IF Len(s.nowFunc) > 0 THEN s.nowFunc[1] ELSE wall

\* NewState(expireIn, opt...) of state.go: the redirect URL is an option
\* (withRedirectURL, "" when not given) and is not checked; this St has
\* neither an implicit flow nor a verifier.
NewState_stateGo(expireIn, opts, nonceRnd, idRnd, wall) ==
    IF expireIn = 0 \/ expireIn < 0
    THEN [s |-> <<>>, err |-> ErrInvalidParameter]
    ELSE LET s0 == [id |-> NewID("st", idRnd),
                    nonce |-> NewID("n", nonceRnd),
                    redirectURL |-> opts.withRedirectURL,
                    nowFunc |-> opts.withNowFunc,
                    audiences |-> opts.withAudiences,
                    scopes |-> opts.withScopes,
                    withImplicit |-> <<>>,
                    withVerifier |-> <<>>,
                    maxAge |-> 0,
                    expiration |-> 0]
         IN  [s |-> <<[s0 EXCEPT !.expiration = St_now(s0, wall) + expireIn]>>,
              err |-> NoErr]

\* fault: NewState takes an empty redirect URL
NewState_anyRedirect(expireIn, redirectURL, opts, nonceRnd, idRnd, wall) ==
    IF expireIn = 0 \/ expireIn < 0
    THEN [s |-> <<>>, err |-> ErrInvalidParameter]
    ELSE IF Len(opts.withVerifier) > 0 /\ Len(opts.withImplicitFlow) > 0
    THEN [s |-> <<>>, err |-> ErrInvalidParameter]
    ELSE [s |-> <<[id |-> NewID("st", idRnd),
                   nonce |-> NewID("n", nonceRnd),
                   redirectURL |-> redirectURL,
                   nowFunc |-> opts.withNowFunc,
                   audiences |-> opts.withAudiences,
                   scopes |-> opts.withScopes,
                   withImplicit |-> opts.withImplicitFlow,
                   withVerifier |-> opts.withVerifier,
                   maxAge |-> opts.withMaxAge,
                   expiration |->
                       (IF Len(opts.withNowFunc) > 0 THEN opts.withNowFunc[1]
                        ELSE wall) + expireIn]>>,
          err |-> NoErr]

\* NewState(expireIn, redirectURL, opt...): <<*St or nil, error>>.  The
\* field maxAge is that of spec.md 3 (WithMaxAge of the tests); the St of
\* part_000 does not have it.
NewState(expireIn, redirectURL, opts, nonceRnd, idRnd, wall) ==
    IF redirectURL = ""
    THEN [s |-> <<>>, err |-> ErrInvalidParameter]
    ELSE IF expireIn = 0 \/ expireIn < 0
    THEN [s |-> <<>>, err |-> ErrInvalidParameter]
    ELSE IF Len(opts.withVerifier) > 0 /\ Len(opts.withImplicitFlow) > 0
    THEN [s |-> <<>>, err |-> ErrInvalidParameter]
    ELSE LET s0 == [id |-> NewID("st", idRnd),
                    nonce |-> NewID("n", nonceRnd),
                    redirectURL |-> redirectURL,
                    nowFunc |-> opts.withNowFunc,
                    audiences |-> opts.withAudiences,
                    scopes |-> opts.withScopes,
                    withImplicit |-> opts.withImplicitFlow,
                    withVerifier |-> opts.withVerifier,
                    maxAge |-> opts.withMaxAge,
                    expiration |-> 0]
         IN  [s |-> <<[s0 EXCEPT !.expiration = St_now(s0, wall) + expireIn]>>,
              err |-> NoErr]

\* fault: ID() hands out the nonce
ID_retNonce(s) == s.nonce

ID(s) == s.id

\* fault: Nonce() hands out the id
Nonce_retID(s) == s.id

Nonce(s) == s.nonce

\* fault: Audiences() hands out the scopes
Audiences_retScopes(s) == s.scopes

Audiences(s) == s.audiences

\* fault: Scopes() hands out the audiences
Scopes_retAudiences(s) == s.audiences

Scopes(s) == s.scopes

RedirectURL(s) == s.redirectURL

PKCEVerifier(s) == s.withVerifier

\* the request's max_age (spec.md 3); 0 when WithMaxAge was not given
MaxAge(s) == s.maxAge

\* fault: ImplicitFlow() never reports the implicit flow
ImplicitFlow_never(s) == <<FALSE, FALSE>>

\* fault: ImplicitFlow() drops the request for an access token
ImplicitFlow_noAccessToken(s) ==
    IF Len(s.withImplicit) = 0 THEN <<FALSE, FALSE>> ELSE <<TRUE, FALSE>>

\* St.ImplicitFlow(): <<useImplicitFlow, includeAccessToken>>
ImplicitFlow(s) ==
    IF Len(s.withImplicit) = 0
    THEN <<FALSE, FALSE>>
    ELSE IF s.withImplicit[1].withAccessToken
    THEN <<TRUE, TRUE>>
    ELSE <<TRUE, FALSE>>

\* fault: a request never expires
IsExpired_never(s, wall) == FALSE

\* fault: IsExpired() reads the clock without the skew
IsExpired_noSkew(s, wall) == s.expiration < wall

\* fault: IsExpired() turns false again once the expiration has passed
IsExpired_window(s, wall) ==
    s.expiration < wall + StateExpirySkew /\ wall <= s.expiration

\* St.IsExpired(): s.expiration.Before(time.Now().Add(StateExpirySkew))
IsExpired(s, wall) == s.expiration < wall + StateExpirySkew

---------------------------------------------------------------------------
(* The test IdP: type TestProvider (src/oidc/provider_test.go) *)

\* TestSignJWT(t, privKey, alg, claims, keyID): a signed JWT
TestSignJWT(privKey, alg, claims, keyID) ==
    [alg |-> alg, kid |-> keyID, claims |-> claims, signedWith |-> privKey]

\* TestProvider.issueSignedJWT(), the clock of the IdP being time.Now
issueSignedJWT(tp, wall) ==
    LET aud == <<tp.clientID>> \o tp.customAudiences
        customClaims ==
            IF tp.expectedAuthNonce # ""
            THEN [tp.customClaims EXCEPT !.nonce = <<tp.expectedAuthNonce>>]
            ELSE tp.customClaims
        claims ==
            [sub |-> tp.replySubject,
             iss |-> tp.addr,
             nbf |-> <<Unix(wall - tp.replyExpiry)>>,
             exp |-> Unix(wall + tp.replyExpiry),
             auth_time |-> <<Unix(wall)>>,
             iat |-> Unix(wall),
             aud |-> aud,
             azp |-> customClaims.azp,
             nonce |-> customClaims.nonce]
    IN  TestSignJWT(tp.privKey, tp.alg, claims, "")

\* TestProvider.ServeHTTP, case "/token": the status and the JSON reply
\* (access_token and id_token are omitempty: <<>> when left out)
ServeHTTP_token(tp, method, form, wall) ==
    IF method # "POST"
    THEN [status |-> 405, access_token |-> <<>>, id_token |-> <<>>]
    ELSE IF form.grant_type # "authorization_code"
    THEN [status |-> 400, access_token |-> <<>>, id_token |-> <<>>]
    ELSE IF ~StrListContains(tp.allowedRedirectURIs, form.redirect_uri)
    THEN [status |-> 400, access_token |-> <<>>, id_token |-> <<>>]
    ELSE IF form.code # tp.expectedAuthCode
    THEN [status |-> 401, access_token |-> <<>>, id_token |-> <<>>]
    ELSE LET jwtData == issueSignedJWT(tp, wall)
         IN  [status |-> 200,
              access_token |-> IF tp.omitAccessToken THEN <<>> ELSE <<jwtData>>,
              id_token |-> IF tp.omitIDToken THEN <<>> ELSE <<jwtData>>]

\* TestProvider.ServeHTTP, case "/.well-known/jwks.json"
ServeHTTP_jwks(tp) ==
    IF tp.disableJWKs
    THEN [status |-> 404, keyset |-> FALSE, keys |-> {}]
    ELSE IF tp.invalidJWKs
    THEN [status |-> 200, keyset |-> FALSE, keys |-> {}]
    ELSE [status |-> 200, keyset |-> TRUE, keys |-> {tp.pubKey}]

---------------------------------------------------------------------------
(* Provider (spec.md 4.G).  Its source file is not in src/: the operators  *)
(* of this section follow spec.md, and the expectations of the tests of    *)
(* src/oidc/provider_test.go where spec.md leaves a choice or disagrees    *)
(* with itself.                                                            *)

\* the skew of the temporal checks of VerifyIDToken (spec.md 4.G.4, step 7)
Leeway == 1 * Second

Failed(err) == [claims |-> <<>>, err |-> err]

\* spec.md 4.G.4 step 8, first bullet
EffectiveAudiences(cfg, s) ==
    IF Len(Audiences(s)) > 0 THEN Audiences(s)
    ELSE IF Len(cfg.Audiences) > 0 THEN cfg.Audiences
    ELSE <<cfg.ClientID>>

\* fault: the audience rule as spec.md 4.G.4 step 8 words it, the client
\* id being the allow-list of a single-valued aud as well
verifyAudience_literal(cfg, s, aud) ==
    IF Overlap(aud, EffectiveAudiences(cfg, s))
    THEN NoErr
    ELSE ErrInvalidAudience

\* spec.md 4.G.4 step 8, second bullet.  With no audiences on the request
\* and none in the config, a single-valued aud is not compared with the
\* client id: the tests single-aud-missing-azp and single-aud-valid-azp
\* (provider_test.go 1054-1082) get InvalidAuthorizedParty and success for
\* aud = ["alice"], and multiple-aud-does-not-inc-client-id (994-1008)
\* gets InvalidAudience for aud = ["alice", "bob"].
verifyAudience(cfg, s, aud) ==
    IF Len(Audiences(s)) = 0 /\ Len(cfg.Audiences) = 0 /\ Len(aud) = 1
    THEN NoErr
    ELSE IF Overlap(aud, EffectiveAudiences(cfg, s))
    THEN NoErr
    ELSE ErrInvalidAudience

\* fault: a missing azp is never an error
verifyAuthorizedParty_lax(cfg, aud, azp) ==
    IF Len(azp) > 0 /\ azp[1] # cfg.ClientID
    THEN ErrInvalidAuthorizedParty
    ELSE NoErr

\* spec.md 4.G.4 step 8, authorized-party rule
verifyAuthorizedParty(cfg, aud, azp) ==
    LET required == Len(aud) > 1 \/ (Len(aud) = 1 /\ aud[1] # cfg.ClientID)
    IN  IF Len(azp) = 0
        THEN IF required THEN ErrInvalidAuthorizedParty ELSE NoErr
        ELSE IF azp[1] # cfg.ClientID
        THEN ErrInvalidAuthorizedParty
        ELSE NoErr

\* fault: nbf is looked at before exp
verifyTimes_nbfFirst(c, wall) ==
    IF Len(c.nbf) > 0 /\ ~(c.nbf[1] <= wall + Leeway) THEN ErrInvalidNotBefore
    ELSE IF ~(c.exp > wall - Leeway) THEN ErrExpiredToken
    ELSE IF ~(c.iat <= wall + Leeway) THEN ErrInvalidIssuedAt
    ELSE NoErr

\* spec.md 4.G.4 step 7: exp, then nbf, then iat
verifyTimes(c, wall) ==
    IF ~(c.exp > wall - Leeway) THEN ErrExpiredToken
    ELSE IF Len(c.nbf) > 0 /\ ~(c.nbf[1] <= wall + Leeway) THEN ErrInvalidNotBefore
    ELSE IF ~(c.iat <= wall + Leeway) THEN ErrInvalidIssuedAt
    ELSE NoErr

\* fault: the age of the authentication is compared without the skew
verifyAuthTime_noSkew(s, c, wall) ==
    IF MaxAge(s) > 0
    THEN IF Len(c.auth_time) = 0 THEN ErrMissingClaim
         ELSE IF ~(wall - c.auth_time[1] <= MaxAge(s)) THEN ErrExpiredAuthTime
         ELSE NoErr
    ELSE NoErr

\* spec.md 4.G.4 step 10
verifyAuthTime(s, c, wall) ==
    IF MaxAge(s) > 0
    THEN IF Len(c.auth_time) = 0 THEN ErrMissingClaim
         ELSE IF ~(wall - c.auth_time[1] <= MaxAge(s) + Leeway) THEN ErrExpiredAuthTime
         ELSE NoErr
    ELSE NoErr

\* Provider.VerifyIDToken(ctx, idToken, request): <<claims or nil, error>>.
\* t is the ID token, <<>> for the empty string; jwks is what the JWKS
\* endpoint of the IdP answers.
VerifyIDToken(prov, t, s, jwks, wall) ==
    IF Len(prov.config) = 0 THEN Failed(ErrNilParameter)
    ELSE IF Len(t) = 0 THEN Failed(ErrInvalidParameter)
    ELSE IF Nonce(s) = "" THEN Failed(ErrInvalidParameter)
    ELSE LET cfg == prov.config[1]
             jwt == t[1]
             c == jwt.claims
         IN  IF ~StrListContains(cfg.SupportedSigningAlgs, jwt.alg)
             THEN Failed(ErrUnsupportedAlg)
             ELSE IF jwks.status # 200 \/ ~jwks.keyset
             THEN Failed(ErrInvalidJWKs)
             ELSE IF jwt.signedWith \notin jwks.keys
             THEN Failed(ErrInvalidSignature)
             ELSE IF c.iss # cfg.Issuer
             THEN Failed(ErrInvalidIssuer)
             ELSE IF verifyTimes(c, wall) # NoErr
             THEN Failed(verifyTimes(c, wall))
             ELSE IF verifyAudience(cfg, s, c.aud) # NoErr
             THEN Failed(verifyAudience(cfg, s, c.aud))
             ELSE IF verifyAuthorizedParty(cfg, c.aud, c.azp) # NoErr
             THEN Failed(verifyAuthorizedParty(cfg, c.aud, c.azp))
             ELSE IF c.nonce # <<Nonce(s)>>
             THEN Failed(ErrInvalidNonce)
             ELSE IF verifyAuthTime(s, c, wall) # NoErr
             THEN Failed(verifyAuthTime(s, c, wall))
             ELSE [claims |-> <<c>>, err |-> NoErr]

\* url.Parse on the URLs of the model: whether the URL parses, its Scheme,
\* Hostname(), Port(), Path, RawQuery and Fragment.  The strings that are
\* not listed do not parse (an invalid escape, a missing scheme before ://).
url_Parse(uri) ==
    LET u(scheme, hostname, port, path, rawQuery, fragment) ==
            [ok |-> TRUE, scheme |-> scheme, hostname |-> hostname,
             port |-> port, path |-> path, rawQuery |-> rawQuery,
             fragment |-> fragment]
    IN  CASE uri = "" -> u("", "", "", "", "", "")
          [] uri = "a" -> u("", "", "", "a", "", "")
          [] uri = "b" -> u("", "", "", "b", "", "")
          [] uri = "idp.test" -> u("", "", "", "idp.test", "", "")
          [] uri = "https://test-redirect" -> u("https", "test-redirect", "", "", "", "")
          [] uri = "http://localhost" -> u("http", "localhost", "", "", "", "")
          [] uri = "http://locahost" -> u("http", "locahost", "", "", "", "")
          [] uri = "http://localhost:5000" -> u("http", "localhost", "5000", "", "", "")
          [] uri = "https://localhost:5000" -> u("https", "localhost", "5000", "", "", "")
          [] uri = "https://localhost:9000" -> u("https", "localhost", "9000", "", "", "")
          [] uri = "https://127.0.0.1:5000" -> u("https", "127.0.0.1", "5000", "", "", "")
          [] uri = "https://127.0.0.1:9000" -> u("https", "127.0.0.1", "9000", "", "", "")
          [] uri = "https://[::1]:5000" -> u("https", "::1", "5000", "", "", "")
          [] uri = "https://[::1]:9000" -> u("https", "::1", "9000", "", "", "")
          [] uri = "https://[::1]:5000/x/y?r=42" -> u("https", "::1", "5000", "/x/y", "r=42", "")
          [] uri = "https://[::1]:9000/x/y?r=42" -> u("https", "::1", "9000", "/x/y", "r=42", "")
          [] uri = "https://[::1]:5000/x/y?r=43" -> u("https", "::1", "5000", "/x/y", "r=43", "")
          [] uri = "https://[::2]:5000" -> u("https", "::2", "5000", "", "", "")
          [] uri = "https://[::2]:9000" -> u("https", "::2", "9000", "", "", "")
          [] uri = "http://example.com" -> u("http", "example.com", "", "", "", "")
          [] uri = "https://example.com" -> u("https", "example.com", "", "", "", "")
          [] uri = "https://EXAMPLE.com" -> u("https", "EXAMPLE.com", "", "", "", "")
          [] uri = "https://example.com:5000" -> u("https", "example.com", "5000", "", "", "")
          [] uri = "https://example.com:9000" -> u("https", "example.com", "9000", "", "", "")
          [] uri = "https://example.com/a/b/c" -> u("https", "example.com", "", "/a/b/c", "", "")
          [] uri = "https://idp.test" -> u("https", "idp.test", "", "", "", "")
          [] uri = "http://idp.test" -> u("http", "idp.test", "", "", "", "")
          [] uri = "ftp://idp.test" -> u("ftp", "idp.test", "", "", "", "")
          [] uri = "https://idp.test?x=1" -> u("https", "idp.test", "", "", "x=1", "")
          [] uri = "https://idp.test#frag" -> u("https", "idp.test", "", "", "", "frag")
          [] OTHER -> [ok |-> FALSE, scheme |-> "", hostname |-> "", port |-> "",
                       path |-> "", rawQuery |-> "", fragment |-> ""]

\* url.QueryEscape on the values of the model
QueryEscape(v) ==
    CASE v = "https://test-redirect" -> "https%3A%2F%2Ftest-redirect"
      [] v = "https://localhost:9000" -> "https%3A%2F%2Flocalhost%3A9000"
      [] v = "https://localhost:5000" -> "https%3A%2F%2Flocalhost%3A5000"
      [] v = "https://example.com:5000" -> "https%3A%2F%2Fexample.com%3A5000"
      [] v = "https://example.com:9000" -> "https%3A%2F%2Fexample.com%3A9000"
      [] v = "%%%%%%%%%%%" -> "%25%25%25%25%25%25%25%25%25%25%25"
      [] OTHER -> v

\* the values of a multi-valued parameter, joined by spaces and escaped:
\* a space is written +
RECURSIVE EscapeJoin(_)
EscapeJoin(vs) ==
    IF Len(vs) = 0 THEN ""
    ELSE IF Len(vs) = 1 THEN QueryEscape(vs[1])
    ELSE QueryEscape(vs[1]) \o "+" \o EscapeJoin(Tail(vs))

\* fault: no host counts as a loopback host
LoopbackHosts_none == {}

\* the hosts of a loopback redirect
LoopbackHosts == {"localhost", "127.0.0.1", "::1"}

\* fault: validRedirect compares the strings and nothing else
validRedirect_exact(prov, uri) ==
    IF ~url_Parse(uri).ok THEN ErrInvalidParameter
    ELSE IF Len(prov.config[1].AllowedRedirectURLs) = 0 THEN NoErr
    ELSE IF StrListContains(prov.config[1].AllowedRedirectURLs, uri) THEN NoErr
    ELSE ErrUnauthorizedRedirectURI

\* Provider.validRedirect(uri) (spec.md 4.G.6), with the loopback rule the
\* table of TestProvider_validRedirect expects: a redirect to a loopback
\* host matches an allowed URL up to the port
validRedirect(prov, uri) ==
    LET allowed == prov.config[1].AllowedRedirectURLs
        u == url_Parse(uri)
        sameButPort(a) ==
            /\ a.ok
            /\ a.scheme = u.scheme /\ a.hostname = u.hostname /\ a.path = u.path
            /\ a.rawQuery = u.rawQuery /\ a.fragment = u.fragment
    IN  IF ~u.ok THEN ErrInvalidParameter
        ELSE IF Len(allowed) = 0 THEN NoErr
        ELSE IF u.hostname \notin LoopbackHosts
        THEN IF StrListContains(allowed, uri)
             THEN NoErr
             ELSE ErrUnauthorizedRedirectURI
        ELSE IF \E i \in 1..Len(allowed) : sameButPort(url_Parse(allowed[i]))
        THEN NoErr
        ELSE ErrUnauthorizedRedirectURI

NoURL(err) == [url |-> <<>>, err |-> err]

\* Provider.AuthURL(ctx, request) (spec.md 4.G.2): <<url, error>>.  s is
\* <<>> for a nil request.  The URL is the authorization endpoint and the
\* query, a sequence of <<key, escaped value>> in the order of the keys.
AuthURL(prov, s) ==
    IF Len(s) = 0 THEN NoURL(ErrInvalidParameter)
    ELSE IF ID(s[1]) = "" THEN NoURL(ErrInvalidParameter)
    ELSE IF Nonce(s[1]) = "" THEN NoURL(ErrInvalidParameter)
    ELSE IF ID(s[1]) = Nonce(s[1]) THEN NoURL(ErrInvalidParameter)
    ELSE IF ImplicitFlow(s[1])[1] /\ Len(PKCEVerifier(s[1])) > 0
    THEN NoURL(ErrInvalidParameter)
    ELSE IF RedirectURL(s[1]) = "" THEN NoURL(ErrInvalidParameter)
    ELSE IF validRedirect(prov, RedirectURL(s[1])) # NoErr
    THEN NoURL(ErrInvalidParameter)
    ELSE LET cfg == prov.config[1]
             implicit == ImplicitFlow(s[1])
             scopes == <<"openid">> \o
                       (IF Len(Scopes(s[1])) > 0 THEN Scopes(s[1]) ELSE cfg.Scopes)
             responseType ==
                 IF ~implicit[1] THEN <<"code">>
                 ELSE IF implicit[2] THEN <<"id_token", "token">>
                 ELSE <<"id_token">>
             pkce ==
                 IF Len(PKCEVerifier(s[1])) > 0
                 THEN <<<<"code_challenge", QueryEscape(PKCEVerifier(s[1])[1].challenge)>>,
                        <<"code_challenge_method", QueryEscape(PKCEVerifier(s[1])[1].method)>>>>
                 ELSE <<>>
             mode ==
                 IF implicit[1] THEN <<<<"response_mode", "form_post">>>> ELSE <<>>
         IN  [url |-> <<[endpoint |-> cfg.Issuer \o "/authorize",
                         query |-> <<<<"client_id", QueryEscape(cfg.ClientID)>>>>
                                   \o pkce
                                   \o <<<<"nonce", QueryEscape(Nonce(s[1]))>>,
                                        <<"redirect_uri", QueryEscape(RedirectURL(s[1]))>>>>
                                   \o mode
                                   \o <<<<"response_type", EscapeJoin(responseType)>>,
                                        <<"scope", EscapeJoin(scopes)>>,
                                        <<"state", QueryEscape(ID(s[1]))>>>>]>>,
              err |-> NoErr]

NoToken == [tk |-> <<>>, err |-> NoErr, reply |-> <<>>]

\* fault: Exchange hands out the tokens of the reply although the
\* verification of the ID token failed
Exchange_partial(prov, s, authorizationState, authorizationCode, tp, wall) ==
    IF Len(prov.config) = 0
    THEN [NoToken EXCEPT !.err = ErrNilParameter]
    ELSE IF ID(s) # authorizationState \/ IsExpired(s, wall)
    THEN [NoToken EXCEPT !.err = ErrInvalidParameter]
    ELSE LET form == [grant_type |-> "authorization_code",
                      code |-> authorizationCode,
                      redirect_uri |-> RedirectURL(s),
                      client_id |-> prov.config[1].ClientID,
                      code_verifier |-> PKCEVerifier(s)]
             reply == ServeHTTP_token(tp, "POST", form, wall)
             v == VerifyIDToken(prov, reply.id_token, s, ServeHTTP_jwks(tp), wall)
         IN  IF reply.status # 200
             THEN [NoToken EXCEPT !.err = ErrStatus(reply.status), !.reply = <<reply>>]
             ELSE IF Len(reply.access_token) = 0
             THEN [NoToken EXCEPT !.err = ErrMissingAccessToken, !.reply = <<reply>>]
             ELSE IF Len(reply.id_token) = 0
             THEN [NoToken EXCEPT !.err = ErrMissingIDToken, !.reply = <<reply>>]
             ELSE [tk |-> <<[idToken |-> reply.id_token[1],
                             accessToken |-> reply.access_token[1],
                             refreshToken |-> <<>>,
                             expiry |-> <<>>]>>,
                   err |-> v.err,
                   reply |-> <<reply>>]

\* fault: Exchange looks for the ID token before the access token
Exchange_idTokenFirst(prov, s, authorizationState, authorizationCode, tp, wall) ==
    IF Len(prov.config) = 0
    THEN [NoToken EXCEPT !.err = ErrNilParameter]
    ELSE IF ID(s) # authorizationState \/ IsExpired(s, wall)
    THEN [NoToken EXCEPT !.err = ErrInvalidParameter]
    ELSE LET form == [grant_type |-> "authorization_code",
                      code |-> authorizationCode,
                      redirect_uri |-> RedirectURL(s),
                      client_id |-> prov.config[1].ClientID,
                      code_verifier |-> PKCEVerifier(s)]
             reply == ServeHTTP_token(tp, "POST", form, wall)
             v == VerifyIDToken(prov, reply.id_token, s, ServeHTTP_jwks(tp), wall)
         IN  IF reply.status # 200
             THEN [NoToken EXCEPT !.err = ErrStatus(reply.status), !.reply = <<reply>>]
             ELSE IF Len(reply.id_token) = 0
             THEN [NoToken EXCEPT !.err = ErrMissingIDToken, !.reply = <<reply>>]
             ELSE IF Len(reply.access_token) = 0
             THEN [NoToken EXCEPT !.err = ErrMissingAccessToken, !.reply = <<reply>>]
             ELSE IF v.err # NoErr
             THEN [NoToken EXCEPT !.err = v.err, !.reply = <<reply>>]
             ELSE [tk |-> <<[idToken |-> reply.id_token[1],
                             accessToken |-> reply.access_token[1],
                             refreshToken |-> <<>>,
                             expiry |-> <<>>]>>,
                   err |-> NoErr,
                   reply |-> <<reply>>]

\* Provider.Exchange(ctx, request, returnedState, authCode): <<*Tk or nil,
\* error>>, against the IdP tp.  reply records what the token endpoint
\* answered, <<>> when Exchange returned before calling it.  The token
\* endpoint of the IdP sends no expires_in, so the Token has no expiry.
Exchange(prov, s, authorizationState, authorizationCode, tp, wall) ==
    IF Len(prov.config) = 0
    THEN [NoToken EXCEPT !.err = ErrNilParameter]
    ELSE IF ID(s) # authorizationState
    THEN [NoToken EXCEPT !.err = ErrInvalidParameter]
    ELSE IF IsExpired(s, wall)
    THEN [NoToken EXCEPT !.err = ErrInvalidParameter]
    ELSE LET cfg == prov.config[1]
             form == [grant_type |-> "authorization_code",
                      code |-> authorizationCode,
                      redirect_uri |-> RedirectURL(s),
                      client_id |-> cfg.ClientID,
                      code_verifier |-> PKCEVerifier(s)]
             reply == ServeHTTP_token(tp, "POST", form, wall)
             v == VerifyIDToken(prov, reply.id_token, s, ServeHTTP_jwks(tp), wall)
         IN  IF reply.status # 200
             THEN [NoToken EXCEPT !.err = ErrStatus(reply.status), !.reply = <<reply>>]
             ELSE IF Len(reply.access_token) = 0
             THEN [NoToken EXCEPT !.err = ErrMissingAccessToken, !.reply = <<reply>>]
             ELSE IF Len(reply.id_token) = 0
             THEN [NoToken EXCEPT !.err = ErrMissingIDToken, !.reply = <<reply>>]
             ELSE IF v.err # NoErr
             THEN [NoToken EXCEPT !.err = v.err, !.reply = <<reply>>]
             ELSE [tk |-> <<[idToken |-> reply.id_token[1],
                             accessToken |-> reply.access_token[1],
                             refreshToken |-> <<>>,
                             expiry |-> <<>>]>>,
                   err |-> NoErr,
                   reply |-> <<reply>>]

---------------------------------------------------------------------------
(* The values of the tests (src/oidc/provider_test.go) *)

clientID == "test-client-id"
redirect == "https://test-redirect"
\* TestProvider.Addr(): the base URL of the IdP, its issuer
tpAddr == "https://idp.test"

\* the instant at which the clock of the model starts
StartTime == 2 * Second

\* testNewConfig: the config of a provider for the test IdP
testNewConfig ==
    [ClientID |-> clientID,
     ClientSecret |-> "test-client-secret",
     Issuer |-> tpAddr,
     SupportedSigningAlgs |-> <<"ES256">>,
     AllowedRedirectURLs |-> <<redirect>>,
     Audiences |-> <<>>,
     Scopes |-> <<>>]

\* testNewProvider, and the &Provider{} of the nil-config tests
testNewProvider == [config |-> <<testNewConfig>>]
nilConfigProvider == [config |-> <<>>]

\* StartTestProvider: the defaults of a started TestProvider, with the
\* client creds and the signing keys a test provider is set up with
StartTestProvider ==
    [clientID |-> clientID,
     addr |-> tpAddr,
     replySubject |-> "alice@example.com",
     allowedRedirectURIs |-> <<"https://example.com">>,
     expectedAuthCode |-> "",
     expectedAuthNonce |-> "",
     customClaims |-> [azp |-> <<>>, nonce |-> <<>>],
     customAudiences |-> <<>>,
     omitIDToken |-> FALSE,
     omitAccessToken |-> FALSE,
     disableJWKs |-> FALSE,
     invalidJWKs |-> FALSE,
     replyExpiry |-> 5 * Second,
     privKey |-> "idp-key",
     pubKey |-> "idp-key",
     alg |-> "ES256"]

\* the states the Set* functions of the tests of Exchange put the IdP in,
\* for a request s
ExchangeTestProviders(s) ==
    {[StartTestProvider EXCEPT
        !.allowedRedirectURIs = uris,
        !.expectedAuthCode = "test-code",
        !.expectedAuthNonce = nonce,
        !.customClaims = [azp |-> azp, nonce |-> <<>>],
        !.customAudiences = auds,
        !.omitIDToken = omitID,
        !.omitAccessToken = omitAccess,
        !.replyExpiry = expiry] :
        uris \in {<<"https://example.com">>, <<redirect, "https://state-override">>},
        nonce \in {"", Nonce(s), "not-the-nonce"},
        azp \in {<<>>, <<clientID>>, <<"bob">>},
        auds \in {<<>>, <<"state-override">>},
        omitID \in BOOLEAN,
        omitAccess \in BOOLEAN,
        expiry \in {-(5 * Second), 5 * Second}}

\* the options the requests of the tests of Exchange are built with
ExchangeStOpts ==
    {WithStAudiences(o, auds) :
        o \in {stDefaults,
               WithPKCE(stDefaults, <<NewCodeVerifier("v1")>>),
               WithImplicitFlow(stDefaults, FALSE),
               WithPKCE(WithImplicitFlow(stDefaults, FALSE), <<NewCodeVerifier("v1")>>)},
        auds \in {<<>>, <<"state-override">>}}

---------------------------------------------------------------------------
(* Specification Spec: one authentication attempt and its Exchange *)

Init ==
    /\ now = StartTime
    /\ p \in {testNewProvider, nilConfigProvider}
    /\ req = <<>>
    /\ res = <<>>
    /\ idp = StartTestProvider
    /\ calls = <<>>

\* the caller builds the request of the attempt
CallNewState(optSet, redirects) ==
    /\ res = <<>>
    /\ req = <<>>
    /\ \E expireIn \in -1..MaxExpireIn, redirectURL \in redirects,
          opts \in optSet, nonceRnd \in Entropy, idRnd \in Entropy :
          LET r == NewState(expireIn, redirectURL, opts, nonceRnd, idRnd, now)
          IN  /\ req' = r.s
              /\ res' = <<[op |-> "NewState", expireIn |-> expireIn,
                           redirectURL |-> redirectURL, opts |-> opts,
                           err |-> r.err]>>
    /\ UNCHANGED <<now, p, idp, calls>>

\* time passes; the clock is only of interest once there is a request
Tick ==
    /\ res = <<>>
    /\ req # <<>>
    /\ now < StartTime + MaxTime
    /\ now' = now + 1
    /\ UNCHANGED <<p, req, res, idp, calls>>

\* the callback handler hands the returned state and code to Exchange
CallExchange ==
    /\ res = <<>>
    /\ req # <<>>
    /\ \E authState \in {ID(req[1]), Nonce(req[1]), "not-equal"},
          authCode \in {"test-code", "bad-code"},
          tp \in ExchangeTestProviders(req[1]) :
          LET r == Exchange(p, req[1], authState, authCode, tp, now)
          IN  res' = <<[op |-> "Exchange", authState |-> authState,
                        authCode |-> authCode, tk |-> r.tk, err |-> r.err,
                        reply |-> r.reply]>>
    /\ UNCHANGED <<now, p, req, idp, calls>>

\* the caller takes the return values
Return ==
    /\ res # <<>>
    /\ res' = <<>>
    /\ UNCHANGED <<now, p, req, idp, calls>>

Next ==
    \/ CallNewState(ExchangeStOpts, {"", redirect})
    \/ Tick
    \/ CallExchange
    \/ Return

Spec == Init /\ [][Next]_vars

---------------------------------------------------------------------------
(* Specification SpecVerify: VerifyIDToken on the tokens the tests sign *)

\* the options the requests of the tests of VerifyIDToken are built with
VerifyStOpts ==
    {WithMaxAge(WithStAudiences(stDefaults, auds), maxAge) :
        auds \in {<<>>, <<clientID, "second-aud">>},
        maxAge \in {0, 1 * Second}}

\* the values of the claims the tests of VerifyIDToken sign: defaultClaims
\* and the overrides of the test table; the times are taken around the
\* start of the clock
VerifyClaimValues(s) ==
    [sub |-> {"alice@bob.com"},
     iss |-> {tpAddr, "bad-issuer"},
     nbf |-> {<<>>, <<StartTime + 2 * Second>>, <<StartTime + 3 * Second>>},
     exp |-> {StartTime, StartTime + Second},
     auth_time |-> {<<>>, <<StartTime - Second>>, <<StartTime + Second>>},
     iat |-> {StartTime + Second, StartTime + 2 * Second},
     aud |-> {<<clientID>>, <<"alice">>, <<"eve">>, <<"alice", "bob">>,
              <<"alice", clientID>>},
     azp |-> {<<>>, <<clientID>>, <<"bob">>},
     nonce |-> {<<Nonce(s)>>, <<"not-equal">>}]

VerifyClaims(s) ==
    LET V == VerifyClaimValues(s)
    IN  [sub : V.sub, iss : V.iss, nbf : V.nbf, exp : V.exp,
         auth_time : V.auth_time, iat : V.iat, aud : V.aud, azp : V.azp,
         nonce : V.nonce]

\* the ID tokens handed to VerifyIDToken: the empty string, and the claims
\* signed with the key the IdP serves or with another key
VerifyTokens(s) ==
    {<<>>} \cup
    {<<TestSignJWT(k, alg, c, "valid-ES256")>> :
        k \in {"idp-key", "other-key"}, alg \in {"ES256", "RS256"},
        c \in VerifyClaims(s)}

\* a token every check accepts while the clock is within MaxTime
validToken(s) ==
    TestSignJWT("idp-key", "ES256",
                [sub |-> "alice@bob.com", iss |-> tpAddr, nbf |-> <<>>,
                 exp |-> StartTime + Second, auth_time |-> <<StartTime + Second>>,
                 iat |-> StartTime + Second, aud |-> <<clientID>>, azp |-> <<>>,
                 nonce |-> <<Nonce(s)>>],
                "valid-ES256")

InitVerify ==
    /\ now = StartTime
    /\ p \in {[config |-> <<[testNewConfig EXCEPT !.Audiences = auds]>>] :
                 auds \in {<<>>, <<"eve">>}}
    /\ req \in {NewState(MaxExpireIn, "http://localhost", o, "a", "b", StartTime).s :
                   o \in VerifyStOpts}
    /\ res = <<>>
    /\ idp = StartTestProvider
    /\ calls = <<>>

\* what a call of VerifyIDToken leaves
VerifyResult(t, s, tp) ==
    LET r == VerifyIDToken(p, t, s, ServeHTTP_jwks(tp), now)
    IN  <<[op |-> "VerifyIDToken", t |-> t, s |-> s, jwks |-> ServeHTTP_jwks(tp).keyset,
           claims |-> r.claims, err |-> r.err]>>

CallVerifyIDToken ==
    /\ res = <<>>
    /\ req # <<>>
    /\ \E t \in VerifyTokens(req[1]) :
          res' = VerifyResult(t, req[1], StartTestProvider)
    /\ UNCHANGED <<now, p, req, idp, calls>>

\* the test empty-nonce: the nonce of the request is emptied by hand
CallVerifyEmptyNonce ==
    /\ res = <<>>
    /\ req # <<>>
    /\ \E t \in {<<>>, <<validToken(req[1])>>} :
          res' = VerifyResult(t, [req[1] EXCEPT !.nonce = ""], StartTestProvider)
    /\ UNCHANGED <<now, p, req, idp, calls>>

\* the test missing-and-disabled-jwks: SetDisableJWKs(true), SetInvalidJWKS(true)
CallVerifyNoJWKS ==
    /\ res = <<>>
    /\ req # <<>>
    /\ \E tp \in {[StartTestProvider EXCEPT !.disableJWKs = TRUE],
                  [StartTestProvider EXCEPT !.invalidJWKs = TRUE]} :
          res' = VerifyResult(<<validToken(req[1])>>, req[1], tp)
    /\ UNCHANGED <<now, p, req, idp, calls>>

NextVerify ==
    \/ Tick
    \/ CallVerifyIDToken
    \/ CallVerifyEmptyNonce
    \/ CallVerifyNoJWKS
    \/ Return

SpecVerify == InitVerify /\ [][NextVerify]_vars

---------------------------------------------------------------------------
(* Specification SpecAuthURL: AuthURL on built and on hand-made requests *)

\* the options the requests of the tests of AuthURL are built with
AuthURLStOpts ==
    {WithStScopes(o, scopes) :
        o \in {stDefaults,
               WithPKCE(stDefaults, <<NewCodeVerifier("v1")>>),
               WithImplicitFlow(stDefaults, FALSE),
               WithImplicitFlow(stDefaults, TRUE),
               WithPKCE(WithImplicitFlow(stDefaults, FALSE), <<NewCodeVerifier("v1")>>)},
        scopes \in {<<>>, <<"email", "profile">>}}

AuthURLRedirects ==
    {"", redirect, "https://localhost:9000", "https://example.com:9000",
     "%%%%%%%%%%%"}

\* the zero value of St
zeroSt ==
    [id |-> "", nonce |-> "", redirectURL |-> "", nowFunc |-> <<>>,
     audiences |-> <<>>, scopes |-> <<>>, withImplicit |-> <<>>,
     withVerifier |-> <<>>, maxAge |-> 0, expiration |-> 0]

\* the St literals of the table of TestProvider_AuthURL, and the nil request
HandmadeRequests ==
    {<<>>,
     <<[zeroSt EXCEPT !.id = "s_1234567890", !.nonce = "s_abcdefghigcklmnop",
                      !.redirectURL = "http://locahost",
                      !.withImplicit = <<[withAccessToken |-> FALSE]>>,
                      !.withVerifier = <<NewCodeVerifier("v1")>>]>>,
     <<[zeroSt EXCEPT !.id = "s_1234567890", !.nonce = "s_abcdefghigcklmnop",
                      !.redirectURL = redirect,
                      !.withImplicit = <<[withAccessToken |-> FALSE]>>,
                      !.withVerifier = <<NewCodeVerifier("v1")>>]>>,
     <<[zeroSt EXCEPT !.id = "s_1234567890", !.nonce = "s_abcdefghigcklmnop"]>>,
     <<[zeroSt EXCEPT !.id = "s_1234567890", !.nonce = "s_abcdefghigcklmnop",
                      !.redirectURL = "%%%%%%%%%%%"]>>,
     <<[zeroSt EXCEPT !.id = "s_1234567890"]>>,
     <<[zeroSt EXCEPT !.nonce = "s_1234567890"]>>,
     <<[zeroSt EXCEPT !.id = "s_1234567890", !.nonce = "s_1234567890"]>>,
     <<[zeroSt EXCEPT !.id = "s_1234567890", !.nonce = "s_1234567890",
                      !.redirectURL = redirect]>>,
     <<[zeroSt EXCEPT !.id = "s_1234567890", !.redirectURL = redirect]>>,
     <<[zeroSt EXCEPT !.nonce = "s_1234567890", !.redirectURL = redirect]>>}

InitAuthURL ==
    /\ now = StartTime
    /\ p \in {[config |-> <<[testNewConfig EXCEPT !.AllowedRedirectURLs = allowed]>>] :
                 allowed \in {<<>>, <<redirect>>,
                              <<"https://example.com:5000", "https://localhost:5000">>}}
    /\ req = <<>>
    /\ res = <<>>
    /\ idp = StartTestProvider
    /\ calls = <<>>

AuthURLResult(s) ==
    LET r == AuthURL(p, s)
    IN  <<[op |-> "AuthURL", s |-> s, url |-> r.url, err |-> r.err]>>

\* AuthURL for the request of the attempt
CallAuthURL ==
    /\ res = <<>>
    /\ req # <<>>
    /\ res' = AuthURLResult(req)
    /\ UNCHANGED <<now, p, req, idp, calls>>

\* AuthURL for a request that NewState did not build
CallAuthURLHandmade ==
    /\ res = <<>>
    /\ \E s \in HandmadeRequests : res' = AuthURLResult(s)
    /\ UNCHANGED <<now, p, req, idp, calls>>

NextAuthURL ==
    \/ CallNewState(AuthURLStOpts, AuthURLRedirects)
    \/ CallAuthURL
    \/ CallAuthURLHandmade
    \/ Return

SpecAuthURL == InitAuthURL /\ [][NextAuthURL]_vars

---------------------------------------------------------------------------
(* Provider.UserInfo (spec.md 4.G.5) and the userinfo endpoint *)

\* ServeHTTP, case /userinfo, for a GET: 404 when the endpoint is
\* disabled, the reply as JSON otherwise
ServeHTTP_userinfo(tp) ==
    IF tp.disableUserInfo
    THEN [status |-> 404, body |-> <<>>]
    ELSE [status |-> 200, body |-> <<tp.replyUserinfo>>]

\* the audiences UserInfo accepts: those of its options and the client id
UserInfoAudiences(cfg, auds) == auds \o <<cfg.ClientID>>

\* fault: UserInfo decodes the response before it verifies it
UserInfo_decodeFirst(prov, tokenSource, validSubject, claims, auds, tp) ==
    IF tokenSource = <<>> \/ claims.kind = "nil"
    THEN [err |-> ErrNilParameter, claims |-> claims]
    ELSE IF claims.kind # "ptr"
    THEN [err |-> ErrInvalidParameter, claims |-> claims]
    ELSE IF ServeHTTP_userinfo(tp).status = 404
    THEN [err |-> ErrNotFound, claims |-> claims]
    ELSE LET vc == ServeHTTP_userinfo(tp).body[1]
             dec == [claims EXCEPT !.val = <<vc>>]
         IN  IF vc.iss # "" /\ vc.iss # prov.config[1].Issuer
             THEN [err |-> ErrInvalidIssuer, claims |-> dec]
             ELSE IF vc.sub # validSubject
             THEN [err |-> ErrInvalidSubject, claims |-> dec]
             ELSE [err |-> NoErr, claims |-> dec]

\* p.UserInfo(ctx, tokenSource, validSubject, claims, opt...): the error
\* and what claims holds afterwards.  tokenSource is nil (<<>>) or a token
\* source; claims is nil, a value that is not a pointer, or a pointer to
\* the value val; auds are the audiences of WithAudiences.  A response
\* without iss passes the issuer check, and one without aud passes the
\* audience check unless audiences were asked for (the rows invalid-sub and
\* invalid-audiences of TestProvider_UserInfo).
UserInfo(prov, tokenSource, validSubject, claims, auds, tp) ==
    IF tokenSource = <<>> \/ claims.kind = "nil"
    THEN [err |-> ErrNilParameter, claims |-> claims]
    ELSE IF claims.kind # "ptr"
    THEN [err |-> ErrInvalidParameter, claims |-> claims]
    ELSE IF ServeHTTP_userinfo(tp).status = 404
    THEN [err |-> ErrNotFound, claims |-> claims]
    ELSE LET vc == ServeHTTP_userinfo(tp).body[1]
         IN  IF vc.iss # "" /\ vc.iss # prov.config[1].Issuer
             THEN [err |-> ErrInvalidIssuer, claims |-> claims]
             ELSE IF /\ Len(vc.aud) > 0 \/ Len(auds) > 0
                     /\ ~Overlap(vc.aud, UserInfoAudiences(prov.config[1], auds))
             THEN [err |-> ErrInvalidAudience, claims |-> claims]
             ELSE IF vc.sub # validSubject
             THEN [err |-> ErrInvalidSubject, claims |-> claims]
             ELSE [err |-> NoErr, claims |-> [claims EXCEPT !.val = <<vc>>]]

---------------------------------------------------------------------------
(* Config and ClientSecret of state.go *)

RedactedClientSecret == "[REDACTED: client secret]"

\* json.Marshal of a string without characters to escape
json_Marshal(str) == "\"" \o str \o "\""

\* fault: String() hands out the secret
ClientSecret_String_raw(t) == t

\* ClientSecret.String()
ClientSecret_String(t) == RedactedClientSecret

\* ClientSecret.MarshalJSON()
ClientSecret_MarshalJSON(t) == json_Marshal(RedactedClientSecret)

\* the formatting of a Config by fmt and by encoding/json: the fields as
\* they are, the ClientSecret through its String() resp. MarshalJSON()
Config_Format(c) ==
    [c EXCEPT !.ClientSecret = ClientSecret_String(c.ClientSecret)]

Config_MarshalJSON(c) ==
    [c EXCEPT !.ClientSecret = ClientSecret_MarshalJSON(c.ClientSecret)]

\* the algorithms Config.Validate supports
supportedAlgorithms ==
    {"RS256", "RS384", "RS512", "ES256", "ES384", "ES512",
     "PS256", "PS384", "PS512"}

\* an error built by fmt.Errorf that wraps none of the package's errors:
\* errors.Is finds no Err... value in it
ErrNotWrapped == "not wrapped"

providerConfigDefaults ==
    [withScopes |-> <<>>, withAudiences |-> <<>>, withProviderCA |-> ""]

WithScopes(opts, scopes) == [opts EXCEPT !.withScopes = scopes]

WithAudiences(opts, auds) == [opts EXCEPT !.withAudiences = auds]

WithProviderCA(opts, cert) == [opts EXCEPT !.withProviderCA = cert]

\* Config.Validate(); c is nil (<<>>) or points to a Config (<<c>>).  The
\* two errors about the issuer's URL are built with %w and no error to
\* wrap: the first call lacks the operand, the second passes the nil err.
Config_Validate(c) ==
    IF c = <<>> THEN ErrNilParameter
    ELSE IF c[1].ClientId = "" THEN ErrInvalidParameter
    ELSE IF c[1].ClientSecret = "" THEN ErrInvalidParameter
    ELSE IF c[1].Issuer = "" THEN ErrInvalidParameter
    ELSE IF c[1].RedirectUrl = "" THEN ErrInvalidParameter
    ELSE IF ~url_Parse(c[1].Issuer).ok THEN ErrNotWrapped
    ELSE IF url_Parse(c[1].Issuer).scheme \notin {"https", "http"} THEN ErrNotWrapped
    ELSE IF Len(c[1].SupportedSigningAlgs) = 0 THEN ErrInvalidParameter
    ELSE IF \E i \in 1..Len(c[1].SupportedSigningAlgs) :
               c[1].SupportedSigningAlgs[i] \notin supportedAlgorithms
    THEN ErrInvalidParameter
    ELSE NoErr

\* NewConfig(issuer, clientId, clientSecret, supported, redirectUrl, opt...):
\* <<*Config or nil, error>>; the error wraps that of Validate
NewConfig(issuer, clientId, clientSecret, supported, redirectUrl, opts) ==
    LET c == [Issuer |-> issuer,
              ClientId |-> clientId,
              ClientSecret |-> clientSecret,
              SupportedSigningAlgs |-> supported,
              RedirectUrl |-> redirectUrl,
              Scopes |-> opts.withScopes,
              Audiences |-> <<>>,
              ProviderCA |-> opts.withProviderCA]
    IN  IF Config_Validate(<<c>>) # NoErr
        THEN [c |-> <<>>, err |-> Config_Validate(<<c>>)]
        ELSE [c |-> <<c>>, err |-> NoErr]

---------------------------------------------------------------------------
(* Specification SpecConfig: configs, their validation and rendering *)

ConfigIssuers ==
    {"", "https://idp.test", "http://idp.test", "ftp://idp.test", "idp.test",
     "https://idp.test?x=1", "https://idp.test#frag", "https://idp.test/%zz"}

ConfigSecrets == {"", "secret-1", "secret-2"}

ConfigAlgs == {<<>>, <<"ES256">>, <<"RS256", "ES256">>, <<"ES256", "none">>}

ConfigOpts ==
    {providerConfigDefaults,
     WithScopes(providerConfigDefaults, <<"email", "profile">>),
     WithAudiences(providerConfigDefaults, <<"state-override">>),
     WithProviderCA(providerConfigDefaults, "test-ca-pem")}

\* the configs a caller fills in by hand and validates: nil, and those of
\* NewConfig's arguments with and without audiences
HandmadeConfigs ==
    {<<>>} \cup
    {<<[Issuer |-> issuer, ClientId |-> clientId, ClientSecret |-> secret,
        SupportedSigningAlgs |-> algs, RedirectUrl |-> redirectUrl,
        Scopes |-> <<>>, Audiences |-> auds, ProviderCA |-> ""]>> :
        issuer \in ConfigIssuers, clientId \in {"", clientID},
        secret \in ConfigSecrets, algs \in ConfigAlgs,
        redirectUrl \in {"", redirect}, auds \in {<<>>, <<"state-override">>}}

InitConfig ==
    /\ now = StartTime
    /\ p = testNewProvider
    /\ req = <<>>
    /\ res = <<>>
    /\ idp = StartTestProvider
    /\ calls = <<>>

CallNewConfig ==
    /\ res = <<>>
    /\ \E issuer \in ConfigIssuers, clientId \in {"", clientID},
          secret \in ConfigSecrets, algs \in ConfigAlgs,
          redirectUrl \in {"", redirect}, opts \in ConfigOpts :
          LET r == NewConfig(issuer, clientId, secret, algs, redirectUrl, opts)
          IN  res' = <<[op |-> "NewConfig",
                        in |-> <<[Issuer |-> issuer, ClientId |-> clientId,
                                  ClientSecret |-> secret,
                                  SupportedSigningAlgs |-> algs,
                                  RedirectUrl |-> redirectUrl,
                                  Scopes |-> opts.withScopes,
                                  Audiences |-> <<>>,
                                  ProviderCA |-> opts.withProviderCA]>>,
                        opts |-> opts, c |-> r.c, err |-> r.err]>>
    /\ UNCHANGED <<now, p, req, idp, calls>>

CallValidate ==
    /\ res = <<>>
    /\ \E c \in HandmadeConfigs :
          res' = <<[op |-> "Validate", in |-> c, c |-> c,
                    err |-> Config_Validate(c)]>>
    /\ UNCHANGED <<now, p, req, idp, calls>>

\* two secrets, and two configs that differ in the secret only, are
\* rendered as text and as JSON
CallRender ==
    /\ res = <<>>
    /\ \E s1 \in ConfigSecrets, s2 \in ConfigSecrets, issuer \in ConfigIssuers :
          LET c(secret) == [Issuer |-> issuer, ClientId |-> clientID,
                            ClientSecret |-> secret,
                            SupportedSigningAlgs |-> <<"ES256">>,
                            RedirectUrl |-> redirect, Scopes |-> <<>>,
                            Audiences |-> <<>>, ProviderCA |-> ""]
          IN  res' = <<[op |-> "Render",
                        secrets |-> <<s1, s2>>,
                        str |-> <<ClientSecret_String(s1), ClientSecret_String(s2)>>,
                        json |-> <<ClientSecret_MarshalJSON(s1),
                                   ClientSecret_MarshalJSON(s2)>>,
                        configStr |-> <<Config_Format(c(s1)), Config_Format(c(s2))>>,
                        configJson |-> <<Config_MarshalJSON(c(s1)),
                                         Config_MarshalJSON(c(s2))>>]>>
    /\ UNCHANGED <<now, p, req, idp, calls>>

NextConfig ==
    \/ CallNewConfig
    \/ CallValidate
    \/ CallRender
    \/ Return

SpecConfig == InitConfig /\ [][NextConfig]_vars

---------------------------------------------------------------------------
(* Specification SpecRedirect: validRedirect on the table of its test *)

\* the allow-lists of the table of TestProvider_validRedirect
RedirectAllowLists ==
    {<<>>,
     <<"https://example.com">>,
     <<"a", "b", "https://example.com">>,
     <<"a", "b", "https://example.com:5000">>,
     <<"a", "b", "https://example.com/a/b/c">>,
     <<"a", "b", "https://localhost:5000">>,
     <<"a", "b", "http://localhost:5000">>,
     <<"a", "b", "https://127.0.0.1:5000">>,
     <<"a", "b", "https://[::1]:5000">>,
     <<"a", "b", "https://[::1]:5000/x/y?r=42">>,
     <<"a", "b", "https://[::1]:5000/x/y?r=43">>,
     <<"a", "b", "https://[::2]:5000">>,
     <<"%%%%%%%%%%%">>}

\* the candidates of the table, and one that differs from an allowed URL
\* in the case of its host
RedirectCandidates ==
    {"https://example.com", "https://example.com:5000",
     "https://example.com/a/b/c", "https://localhost:9000",
     "https://127.0.0.1:9000", "https://[::1]:9000",
     "https://[::1]:9000/x/y?r=42", "http://example.com",
     "https://example.com:9000", "https://[::2]:9000",
     "https://localhost:5000", "https://[::1]:5000/x/y?r=42",
     "https://EXAMPLE.com", "%%%%%%%%%%%"}

InitRedirect ==
    /\ now = StartTime
    /\ p \in {[config |-> <<[testNewConfig EXCEPT !.AllowedRedirectURLs = allowed]>>] :
                 allowed \in RedirectAllowLists}
    /\ req = <<>>
    /\ res = <<>>
    /\ idp = StartTestProvider
    /\ calls = <<>>

\* p.validRedirect(uri); the allow-list with an entry that does not parse
\* is that of the last row of the table, and is tried with its candidate
CallValidRedirect ==
    /\ res = <<>>
    /\ \E uri \in RedirectCandidates :
          /\ (\E i \in 1..Len(p.config[1].AllowedRedirectURLs) :
                 ~url_Parse(p.config[1].AllowedRedirectURLs[i]).ok)
                => ~url_Parse(uri).ok
          /\ res' = <<[op |-> "validRedirect", uri |-> uri,
                       err |-> validRedirect(p, uri)]>>
    /\ UNCHANGED <<now, p, req, idp, calls>>

NextRedirect ==
    \/ CallValidRedirect
    \/ Return

SpecRedirect == InitRedirect /\ [][NextRedirect]_vars

---------------------------------------------------------------------------
(* Specification SpecState: requests, their options and their expiry *)

\* the clocks a caller passes to WithNow: behind, at and ahead of the wall
\* clock of the start
StateClocks == {StartTime - Second, StartTime, StartTime + 2 * Second}

\* the option sets of NewState: no flow option, PKCE, PKCE with a nil
\* verifier, the implicit flow, both flows; each with and without WithNow
StateStOpts ==
    LET flows == {stDefaults,
                  WithPKCE(stDefaults, <<NewCodeVerifier("v1")>>),
                  WithPKCE(stDefaults, <<>>),
                  WithImplicitFlow(stDefaults, FALSE),
                  WithImplicitFlow(stDefaults, TRUE),
                  WithPKCE(WithImplicitFlow(stDefaults, TRUE), <<>>),
                  WithPKCE(WithImplicitFlow(stDefaults, FALSE),
                           <<NewCodeVerifier("v1")>>)}
    IN  flows \cup {WithNow(o, t) : o \in flows, t \in StateClocks}

\* the option sets of the NewState of state.go
StateGoStOpts ==
    {[withNowFunc |-> f, withRedirectURL |-> r, withScopes |-> <<>>,
      withAudiences |-> <<>>] :
        f \in {<<>>} \cup {<<t>> : t \in StateClocks}, r \in {"", redirect}}

InitState ==
    /\ now = StartTime
    /\ p = testNewProvider
    /\ req = <<>>
    /\ res = <<>>
    /\ idp = StartTestProvider
    /\ calls = <<>>

\* the caller builds a request with the NewState of state.go
CallNewState_stateGo ==
    /\ res = <<>>
    /\ req = <<>>
    /\ \E expireIn \in -1..MaxExpireIn, opts \in StateGoStOpts,
          nonceRnd \in Entropy, idRnd \in Entropy :
          LET r == NewState_stateGo(expireIn, opts, nonceRnd, idRnd, now)
          IN  /\ req' = r.s
              /\ res' = <<[op |-> "NewState_stateGo", expireIn |-> expireIn,
                           redirectURL |-> opts.withRedirectURL,
                           opts |-> opts, err |-> r.err]>>
    /\ UNCHANGED <<now, p, idp, calls>>

\* the caller asks the request whether it has expired
CallIsExpired ==
    /\ res = <<>>
    /\ req # <<>>
    /\ res' = <<[op |-> "IsExpired", expired |-> IsExpired(req[1], now)]>>
    /\ UNCHANGED <<now, p, req, idp, calls>>

NextState ==
    \/ CallNewState(StateStOpts, {"", redirect})
    \/ CallNewState_stateGo
    \/ Tick
    \/ CallIsExpired
    \/ Return

SpecState == InitState /\ [][NextState]_vars

---------------------------------------------------------------------------
(* Specification SpecUserInfo: UserInfo against the test provider *)

defaultSub == "alice@example.com"

\* the replies of the userinfo endpoint: the default of StartTestProvider
\* (no sub, iss or aud) and those the test sets, with the claims UserInfo
\* verifies present or absent ("" and <<>>), right or wrong
UserInfoReplies ==
    {[sub |-> sub, iss |-> iss, aud |-> aud, nickname |-> "A"] :
        sub \in {"", defaultSub, "eve@example.com"},
        iss \in {"", tpAddr, "bad-issuer"},
        aud \in {<<>>, <<clientID>>, <<"other", clientID>>, <<"other">>}}

UserInfoTestProviders ==
    {[disableUserInfo |-> d, replyUserinfo |-> r] :
        d \in BOOLEAN, r \in UserInfoReplies}

\* the values passed as claims: nil, a map (not a pointer), a pointer to
\* an empty map
UserInfoDests ==
    {[kind |-> "nil", val |-> <<>>], [kind |-> "nonptr", val |-> <<>>],
     [kind |-> "ptr", val |-> <<>>]}

\* the audiences of WithAudiences: none, the client id, another party
UserInfoOpts == {<<>>, <<clientID>>, <<tpAddr>>}

\* the calls of the model: spec.md 4.G.5 and the test leave open what
\* UserInfo does with an aud that names other parties only when no
\* audiences are asked for, and with an aud that holds the client id but
\* none of the audiences asked for; these are not called
UserInfoCalled(auds, tp) ==
    LET aud == tp.replyUserinfo.aud
    IN  /\ ~(Len(auds) = 0 /\ Len(aud) > 0 /\ ~StrListContains(aud, clientID))
        /\ ~(Len(auds) > 0 /\ Len(aud) > 0 /\ ~Overlap(aud, auds)
             /\ StrListContains(aud, clientID))

InitUserInfo ==
    /\ now = StartTime
    /\ p = testNewProvider
    /\ req = <<>>
    /\ res = <<>>
    /\ idp = StartTestProvider
    /\ calls = <<>>

CallUserInfo ==
    /\ res = <<>>
    /\ \E tokenSource \in {<<>>, <<"dummy_access_token">>},
          sub \in {defaultSub, "nobody"},
          claims \in UserInfoDests, auds \in UserInfoOpts,
          tp \in UserInfoTestProviders :
          /\ UserInfoCalled(auds, tp)
          /\ LET r == UserInfo(p, tokenSource, sub, claims, auds, tp)
             IN  res' = <<[op |-> "UserInfo", tokenSource |-> tokenSource,
                           sub |-> sub, before |-> claims, auds |-> auds,
                           tp |-> tp, err |-> r.err, claims |-> r.claims]>>
    /\ UNCHANGED <<now, p, req, idp, calls>>

NextUserInfo ==
    \/ CallUserInfo
    \/ Return

SpecUserInfo == InitUserInfo /\ [][NextUserInfo]_vars

---------------------------------------------------------------------------
(* Properties of Exchange, under Spec *)

\* the call that has just returned is a call of Exchange
ExchangeReturned == res # <<>> /\ res[1].op = "Exchange"

\* C1: on a configured provider, Exchange with a returned state that is
\* not the id of the request fails with InvalidParameter, whatever the
\* authorization code is.
C1_StateMismatch ==
    (ExchangeReturned /\ p.config # <<>> /\ res[1].authState # req[1].id)
        => res[1].err = ErrInvalidParameter

\* a live request, the code the IdP expects, and the nonce of the request
\* passed as the state: InvalidParameter
C1_Witness ==
    /\ ExchangeReturned
    /\ p.config # <<>>
    /\ res[1].authState = req[1].nonce
    /\ res[1].authCode = "test-code"
    /\ ~(req[1].expiration < now + StateExpirySkew)
    /\ res[1].err = ErrInvalidParameter

\* C2: on a configured provider, Exchange of a request that is expired at
\* the time of the call fails with InvalidParameter, even when the state
\* matches and the code is the one the IdP expects.
C2_ExpiredRequest ==
    (/\ ExchangeReturned
     /\ p.config # <<>>
     /\ res[1].authState = req[1].id
     /\ req[1].expiration < now + StateExpirySkew)
        => res[1].err = ErrInvalidParameter

\* the request expired after time has passed, the state matches and the
\* code is the expected one
C2_Witness ==
    /\ ExchangeReturned
    /\ p.config # <<>>
    /\ res[1].authState = req[1].id
    /\ res[1].authCode = "test-code"
    /\ now > StartTime
    /\ req[1].expiration >= StartTime + StateExpirySkew
    /\ req[1].expiration < now + StateExpirySkew
    /\ res[1].err = ErrInvalidParameter

\* C3: Exchange returns a Token only when VerifyIDToken succeeds on the
\* id_token of the token response with the same request: the nonce claim
\* of the returned ID token is the nonce of the request, the returned
\* state was the id of the request, and the request was not expired.
C3_TokenOnlyAfterVerify ==
    (ExchangeReturned /\ res[1].tk # <<>>)
        => /\ res[1].err = NoErr
           /\ res[1].reply # <<>>
           /\ res[1].reply[1].id_token = <<res[1].tk[1].idToken>>
           /\ VerifyIDToken(p, <<res[1].tk[1].idToken>>, req[1],
                            ServeHTTP_jwks(StartTestProvider), now).err = NoErr
           /\ res[1].tk[1].idToken.claims.nonce = <<req[1].nonce>>
           /\ res[1].authState = req[1].id
           /\ ~(req[1].expiration < now + StateExpirySkew)

\* a successful Exchange, some time after the request was built
C3_Witness ==
    /\ ExchangeReturned
    /\ res[1].err = NoErr
    /\ res[1].tk # <<>>
    /\ now > StartTime

---------------------------------------------------------------------------
(* Properties of VerifyIDToken, under SpecVerify *)

\* the call that has just returned is a call of VerifyIDToken on a token
\* that is not empty, the IdP serving its keys
VerifyReturned ==
    /\ res # <<>>
    /\ res[1].op = "VerifyIDToken"
    /\ res[1].jwks
    /\ res[1].t # <<>>

\* the checks of spec.md 4.G.4 on a token jwt for a request s, each on
\* its own
ChkParams(s) == s.nonce # ""
ChkAlg(jwt) == \E i \in 1..Len(p.config[1].SupportedSigningAlgs) :
                   p.config[1].SupportedSigningAlgs[i] = jwt.alg
ChkSig(jwt) == jwt.signedWith = StartTestProvider.pubKey
ChkIss(jwt) == jwt.claims.iss = p.config[1].Issuer
ChkExp(jwt) == jwt.claims.exp > now - Leeway
ChkNbf(jwt) == jwt.claims.nbf = <<>> \/ jwt.claims.nbf[1] <= now + Leeway
ChkIat(jwt) == jwt.claims.iat <= now + Leeway
ChkNonce(jwt, s) == jwt.claims.nonce = <<s.nonce>>
ChkAuthTime(jwt, s) ==
    s.maxAge > 0 =>
        /\ jwt.claims.auth_time # <<>>
        /\ now - jwt.claims.auth_time[1] <= s.maxAge + Leeway

\* the audiences the request or else the config supplies
SuppliedAudiences(s) ==
    IF s.audiences # <<>> THEN s.audiences ELSE p.config[1].Audiences

\* the allow-list of spec.md 4.G.4 step 8
AllowList(s) ==
    IF SuppliedAudiences(s) # <<>> THEN SuppliedAudiences(s)
    ELSE <<p.config[1].ClientID>>

InAllowList(jwt, s) ==
    \E i \in 1..Len(jwt.claims.aud), j \in 1..Len(AllowList(s)) :
        jwt.claims.aud[i] = AllowList(s)[j]

\* the audience rule: a single-valued aud is left to the authorized-party
\* rule when neither the request nor the config supplies audiences
ChkAud(jwt, s) ==
    \/ SuppliedAudiences(s) = <<>> /\ Len(jwt.claims.aud) = 1
    \/ InAllowList(jwt, s)

\* the authorized-party rule
AzpRequired(jwt) ==
    \/ Len(jwt.claims.aud) > 1
    \/ Len(jwt.claims.aud) = 1 /\ jwt.claims.aud[1] # p.config[1].ClientID

ChkAzp(jwt) ==
    /\ AzpRequired(jwt) => jwt.claims.azp # <<>>
    /\ jwt.claims.azp # <<>> => jwt.claims.azp[1] = p.config[1].ClientID

\* the checks that come before the audience rule
ChkBeforeAud(jwt, s) ==
    /\ ChkParams(s) /\ ChkAlg(jwt) /\ ChkSig(jwt) /\ ChkIss(jwt)
    /\ ChkExp(jwt) /\ ChkNbf(jwt) /\ ChkIat(jwt)

\* the error kinds documented for a failed check on a field of the token
KindsOf(field) ==
    CASE field = "alg" -> {ErrUnsupportedAlg}
      [] field = "signedWith" -> {ErrInvalidSignature}
      [] field = "iss" -> {ErrInvalidIssuer}
      [] field = "exp" -> {ErrExpiredToken}
      [] field = "nbf" -> {ErrInvalidNotBefore}
      [] field = "iat" -> {ErrInvalidIssuedAt}
      [] field = "aud" -> {ErrInvalidAudience, ErrInvalidAuthorizedParty}
      [] field = "azp" -> {ErrInvalidAuthorizedParty}
      [] field = "nonce" -> {ErrInvalidNonce}
      [] field = "auth_time" -> {ErrMissingClaim, ErrExpiredAuthTime}

\* the tokens that differ from jwt in one checked input, with the input
SingleFlips(jwt, s) ==
    LET claimFlips(field) ==
            {<<field, [jwt EXCEPT !.claims[field] = v]>> :
                v \in VerifyClaimValues(s)[field] \ {jwt.claims[field]}}
    IN  {<<"alg", [jwt EXCEPT !.alg = "RS256"]>>,
         <<"signedWith", [jwt EXCEPT !.signedWith = "other-key"]>>}
        \cup UNION {claimFlips(f) :
                       f \in {"iss", "exp", "nbf", "iat", "aud", "azp", "nonce", "auth_time"}}

VerifyErr(jwt, s) ==
    VerifyIDToken(p, <<jwt>>, s, ServeHTTP_jwks(StartTestProvider), now).err

\* every check of the list passes, the audience rule being rule
AllChecks(jwt, s, audienceRule) ==
    /\ ChkBeforeAud(jwt, s)
    /\ audienceRule
    /\ ChkAzp(jwt)
    /\ ChkNonce(jwt, s)
    /\ ChkAuthTime(jwt, s)

\* C5 as stated: VerifyIDToken succeeds if and only if every check of the
\* list of spec.md 4.G.4 passes, the audience rule being that an element
\* of aud is in the allow-list; and a single flipped input of an accepted
\* token that makes the token fail makes it fail with the kind of the
\* check of that input, InvalidAudience for aud.
C5_Original ==
    VerifyReturned =>
        /\ res[1].err = NoErr
               <=> AllChecks(res[1].t[1], res[1].s, InAllowList(res[1].t[1], res[1].s))
        /\ res[1].err = NoErr =>
               \A f \in SingleFlips(res[1].t[1], res[1].s) :
                   VerifyErr(f[2], res[1].s) \in
                       {NoErr} \cup (IF f[1] = "aud" THEN {ErrInvalidAudience}
                                     ELSE KindsOf(f[1]))

\* C5, amended: VerifyIDToken succeeds if and only if every check passes,
\* the audience rule leaving a single-valued aud to the authorized-party
\* rule when neither the request nor the config supplies audiences; a
\* single flipped input of an accepted token that makes the token fail
\* makes it fail with a kind documented for a check of that input
\* (InvalidAudience or InvalidAuthorizedParty for aud).
C5_VerifyIffChecks ==
    VerifyReturned =>
        /\ res[1].err = NoErr
               <=> AllChecks(res[1].t[1], res[1].s, ChkAud(res[1].t[1], res[1].s))
        /\ res[1].err = NoErr =>
               \A f \in SingleFlips(res[1].t[1], res[1].s) :
                   VerifyErr(f[2], res[1].s) \in {NoErr} \cup KindsOf(f[1])

\* an accepted token with azp and several audiences, for a request with
\* audiences and max_age, one flip of which is rejected
C5_Witness ==
    /\ VerifyReturned
    /\ res[1].err = NoErr
    /\ res[1].claims = <<res[1].t[1].claims>>
    /\ res[1].s.maxAge > 0
    /\ res[1].s.audiences # <<>>
    /\ Len(res[1].t[1].claims.aud) > 1
    /\ \A field \in {"alg", "signedWith", "iss", "aud", "azp", "nonce", "auth_time"} :
          \E f \in SingleFlips(res[1].t[1], res[1].s) :
              f[1] = field /\ VerifyErr(f[2], res[1].s) \in KindsOf(field)

\* C6 as stated: the allow-list is the audiences of the request if any,
\* else those of the config if any, else the client id; a token that
\* passes the checks before the audience rule and has no element of aud in
\* the allow-list is rejected with InvalidAudience.
C6_Original ==
    (VerifyReturned /\ ChkBeforeAud(res[1].t[1], res[1].s)
                    /\ ~InAllowList(res[1].t[1], res[1].s))
        => res[1].err = ErrInvalidAudience

\* C6, amended: the allow-list is the audiences of the request if any,
\* else those of the config if any, else the client id; a token that
\* passes the checks before the audience rule and has no element of aud in
\* the allow-list is rejected with InvalidAudience, unless neither the
\* request nor the config supplies audiences and aud is single-valued:
\* such a token is not rejected with InvalidAudience.
C6_AudienceAllowList ==
    (VerifyReturned /\ ChkBeforeAud(res[1].t[1], res[1].s))
        => IF SuppliedAudiences(res[1].s) = <<>> /\ Len(res[1].t[1].claims.aud) = 1
           THEN res[1].err # ErrInvalidAudience
           ELSE ~InAllowList(res[1].t[1], res[1].s) => res[1].err = ErrInvalidAudience

\* the request's audiences take precedence: a token whose aud is in the
\* config's audiences and not in the request's is rejected
C6_Witness ==
    /\ VerifyReturned
    /\ ChkBeforeAud(res[1].t[1], res[1].s)
    /\ res[1].s.audiences # <<>>
    /\ p.config[1].Audiences # <<>>
    /\ \E i \in 1..Len(res[1].t[1].claims.aud), j \in 1..Len(p.config[1].Audiences) :
          res[1].t[1].claims.aud[i] = p.config[1].Audiences[j]
    /\ res[1].err = ErrInvalidAudience

\* C7: for a token that passes the checks up to the audience rule, azp is
\* required when aud has more than one element or is a single value that
\* is not the client id, and an azp that is present must be the client
\* id: InvalidAuthorizedParty is returned exactly for a violation; a token
\* with aud = [clientID] and no azp that passes the other checks is
\* accepted.
C7_AuthorizedParty ==
    (VerifyReturned /\ ChkBeforeAud(res[1].t[1], res[1].s)
                    /\ ChkAud(res[1].t[1], res[1].s))
        => /\ res[1].err = ErrInvalidAuthorizedParty <=> ~ChkAzp(res[1].t[1])
           /\ (/\ res[1].t[1].claims.aud = <<p.config[1].ClientID>>
               /\ res[1].t[1].claims.azp = <<>>
               /\ ChkNonce(res[1].t[1], res[1].s)
               /\ ChkAuthTime(res[1].t[1], res[1].s))
                  => res[1].err = NoErr

\* several audiences with the client id among them and no azp
C7_Witness ==
    /\ VerifyReturned
    /\ ChkBeforeAud(res[1].t[1], res[1].s)
    /\ Len(res[1].t[1].claims.aud) > 1
    /\ InAllowList(res[1].t[1], res[1].s)
    /\ res[1].t[1].claims.azp = <<>>
    /\ res[1].err = ErrInvalidAuthorizedParty

\* an otherwise valid token whose only audience is "alice", for a request
\* and a config without audiences
AliceToken ==
    /\ VerifyReturned
    /\ res[1].s.audiences = <<>>
    /\ p.config[1].Audiences = <<>>
    /\ res[1].t[1].claims.aud = <<"alice">>
    /\ ChkBeforeAud(res[1].t[1], res[1].s)
    /\ ChkNonce(res[1].t[1], res[1].s)
    /\ ChkAuthTime(res[1].t[1], res[1].s)

\* C8: with no audiences on the request or in the config, an otherwise
\* valid token whose aud is the single value "alice" is rejected with
\* InvalidAuthorizedParty when it has no azp, and accepted when its azp is
\* the client id.
C8_SingleAudAlice ==
    AliceToken =>
        /\ res[1].t[1].claims.azp = <<>> => res[1].err = ErrInvalidAuthorizedParty
        /\ res[1].t[1].claims.azp = <<p.config[1].ClientID>> => res[1].err = NoErr

\* the token with azp = clientID is accepted
C8_Witness ==
    /\ AliceToken
    /\ res[1].t[1].claims.azp = <<clientID>>
    /\ res[1].err = NoErr

\* the checks that come before the auth_time rule
ChkBeforeAuthTime(jwt, s) ==
    /\ ChkBeforeAud(jwt, s)
    /\ ChkAud(jwt, s)
    /\ ChkAzp(jwt)
    /\ ChkNonce(jwt, s)

\* C9: for a token that passes the other checks and a request with
\* max_age > 0, VerifyIDToken fails with MissingClaim when the token has
\* no auth_time, with ExpiredAuthTime when now - auth_time > max_age +
\* skew, and succeeds otherwise; without max_age, auth_time is not
\* required.
C9_AuthTime ==
    (VerifyReturned /\ ChkBeforeAuthTime(res[1].t[1], res[1].s))
        => LET at == res[1].t[1].claims.auth_time
               maxAge == res[1].s.maxAge
           IN  IF maxAge > 0
               THEN IF at = <<>> THEN res[1].err = ErrMissingClaim
                    ELSE IF now - at[1] > maxAge + Leeway
                    THEN res[1].err = ErrExpiredAuthTime
                    ELSE res[1].err = NoErr
               ELSE res[1].err = NoErr

\* an authentication exactly max_age + skew old is still accepted
C9_Witness ==
    /\ VerifyReturned
    /\ ChkBeforeAuthTime(res[1].t[1], res[1].s)
    /\ res[1].s.maxAge > 0
    /\ res[1].t[1].claims.auth_time # <<>>
    /\ now - res[1].t[1].claims.auth_time[1] = res[1].s.maxAge + Leeway
    /\ res[1].err = NoErr

\* an authentication one tick older is not
C9_WitnessExpired ==
    /\ VerifyReturned
    /\ ChkBeforeAuthTime(res[1].t[1], res[1].s)
    /\ res[1].s.maxAge > 0
    /\ res[1].t[1].claims.auth_time # <<>>
    /\ now - res[1].t[1].claims.auth_time[1] = res[1].s.maxAge + Leeway + 1
    /\ res[1].err = ErrExpiredAuthTime

---------------------------------------------------------------------------
(* Properties of AuthURL, under SpecAuthURL *)

AuthURLReturned == res # <<>> /\ res[1].op = "AuthURL"

\* the redirect URL of s is not one AuthURL may use
BadRedirect(s) ==
    \/ s.redirectURL = ""
    \/ ~url_Parse(s.redirectURL).ok
    \/ validRedirect(p, s.redirectURL) # NoErr

\* C10: AuthURL fails with InvalidParameter, and returns no URL, for a
\* request whose id is empty, whose nonce is empty, whose id is its nonce,
\* whose redirect URL is empty, does not parse or is not allowed by the
\* config, or which has both an implicit-flow setting and a PKCE verifier.
C10_AuthURLPreconditions ==
    (/\ AuthURLReturned
     /\ res[1].s # <<>>
     /\ \/ res[1].s[1].id = ""
        \/ res[1].s[1].nonce = ""
        \/ res[1].s[1].id = res[1].s[1].nonce
        \/ BadRedirect(res[1].s[1])
        \/ res[1].s[1].withImplicit # <<>> /\ res[1].s[1].withVerifier # <<>>)
        => res[1].err = ErrInvalidParameter /\ res[1].url = <<>>

\* a request with both flows whose other fields AuthURL accepts
C10_Witness ==
    /\ AuthURLReturned
    /\ res[1].s # <<>>
    /\ res[1].s[1].id # ""
    /\ res[1].s[1].nonce # ""
    /\ res[1].s[1].id # res[1].s[1].nonce
    /\ ~BadRedirect(res[1].s[1])
    /\ res[1].s[1].withImplicit # <<>>
    /\ res[1].s[1].withVerifier # <<>>
    /\ res[1].err = ErrInvalidParameter
    /\ res[1].url = <<>>

\* a request NewState built whose redirect URL the config does not allow
C10_WitnessRedirect ==
    /\ AuthURLReturned
    /\ res[1].s = req
    /\ req # <<>>
    /\ validRedirect(p, req[1].redirectURL) = ErrUnauthorizedRedirectURI
    /\ res[1].err = ErrInvalidParameter
    /\ res[1].url = <<>>

\* the URL of a successful AuthURL
AuthURLOk == AuthURLReturned /\ res[1].err = NoErr /\ res[1].url # <<>>

\* the keys of a query, in the order of the query
QueryKeys(q) == [i \in 1..Len(q) |-> q[i][1]]

HasKey(q, k) == \E i \in 1..Len(q) : q[i][1] = k

\* the value of key k in q, k being a key of q
QueryValue(q, k) == q[CHOOSE i \in 1..Len(q) : q[i][1] = k][2]

\* the keys AuthURL writes, in ascending lexicographic (byte) order
KeysAscending ==
    <<"client_id", "code_challenge", "code_challenge_method", "nonce",
      "redirect_uri", "response_mode", "response_type", "scope", "state">>

KeyRank(k) == CHOOSE i \in 1..Len(KeysAscending) : KeysAscending[i] = k

\* the scope value the tests of AuthURL expect for the scopes of a request
ExpectedScope(scopes) ==
    CASE scopes = <<>> -> "openid"
      [] scopes = <<"email", "profile">> -> "openid+email+profile"

C12_FlowParameters ==
    AuthURLOk =>
        LET q == res[1].url[1].query
            s == res[1].s[1]
        IN  /\ HasKey(q, "response_type")
            /\ QueryValue(q, "response_type") =
                   (IF s.withImplicit = <<>> THEN "code"
                    ELSE IF s.withImplicit[1].withAccessToken THEN "id_token+token"
                    ELSE "id_token")
            /\ HasKey(q, "response_mode") <=> s.withImplicit # <<>>
            /\ HasKey(q, "response_mode") => QueryValue(q, "response_mode") = "form_post"
            /\ HasKey(q, "code_challenge") <=> s.withVerifier # <<>>
            /\ HasKey(q, "code_challenge_method") <=> s.withVerifier # <<>>
            /\ s.withVerifier # <<>> =>
                   /\ QueryValue(q, "code_challenge") = s.withVerifier[1].challenge
                   /\ QueryValue(q, "code_challenge_method") = "S256"

\* a URL of the implicit flow that asks for the access token as well
C12_Witness ==
    /\ AuthURLOk
    /\ res[1].s[1].withImplicit = <<[withAccessToken |-> TRUE]>>
    /\ QueryValue(res[1].url[1].query, "response_type") = "id_token+token"
    /\ QueryValue(res[1].url[1].query, "response_mode") = "form_post"
    /\ ~HasKey(res[1].url[1].query, "code_challenge")

---------------------------------------------------------------------------
(* Properties of validRedirect, under SpecRedirect *)

RedirectReturned == res # <<>> /\ res[1].op = "validRedirect"

\* the allow-list holds a string identical to uri
Identical(uri) ==
    \E i \in 1..Len(p.config[1].AllowedRedirectURLs) :
        p.config[1].AllowedRedirectURLs[i] = uri

\* uri is a URL of a loopback host, and the allow-list holds a URL that
\* differs from it in nothing but the port
LoopbackUpToPort(uri) ==
    /\ url_Parse(uri).hostname \in {"localhost", "127.0.0.1", "::1"}
    /\ \E i \in 1..Len(p.config[1].AllowedRedirectURLs) :
          LET a == url_Parse(p.config[1].AllowedRedirectURLs[i])
          IN  /\ a.ok
              /\ [a EXCEPT !.port = ""] = [url_Parse(uri) EXCEPT !.port = ""]

---------------------------------------------------------------------------
(* Properties of NewState and IsExpired, under SpecState *)

NewStateReturned == res # <<>> /\ res[1].op = "NewState"

\* a request of either NewState was returned
AnyNewStateReturned ==
    res # <<>> /\ res[1].op \in {"NewState", "NewState_stateGo"}

\* the arguments of the call break a rule of NewState
NewStateRefuses ==
    \/ res[1].redirectURL = ""
    \/ res[1].expireIn <= 0
    \/ res[1].opts.withImplicitFlow # <<>> /\ res[1].opts.withVerifier # <<>>

\* C14: NewState fails with InvalidParameter and a nil request when the
\* redirect URL is empty, expireIn is not positive, or both the implicit
\* flow and a non-nil PKCE verifier are asked for; in every other case it
\* returns a request and no error.
C14_NewStateErrors ==
    NewStateReturned =>
        IF NewStateRefuses
        THEN res[1].err = ErrInvalidParameter /\ req = <<>>
        ELSE res[1].err = NoErr /\ req # <<>>

\* each of the three rules refuses on its own, and a nil verifier next to
\* the implicit flow does not
C14_Witness ==
    /\ NewStateReturned
    /\ res[1].redirectURL = ""
    /\ res[1].expireIn > 0
    /\ res[1].opts.withImplicitFlow = <<>>
    /\ res[1].err = ErrInvalidParameter
    /\ req = <<>>

C14_WitnessNilVerifier ==
    /\ NewStateReturned
    /\ res[1].opts = WithPKCE(WithImplicitFlow(stDefaults, TRUE), <<>>)
    /\ res[1].err = NoErr
    /\ req # <<>>

\* the time of the request's clock when NewState ran (the wall clock does
\* not move before the caller has taken the result)
CreationTime ==
    IF res[1].opts.withNowFunc # <<>> THEN res[1].opts.withNowFunc[1] ELSE now

\* C15: a request returned by NewState has a non-empty ID and a non-empty
\* Nonce which differ, an expiration strictly later than the time of its
\* clock at creation, and at most one of PKCE verifier and implicit flow.
C15_RequestInvariants ==
    (AnyNewStateReturned /\ res[1].err = NoErr) =>
        /\ req # <<>>
        /\ ID(req[1]) # "" /\ Nonce(req[1]) # ""
        /\ ID(req[1]) # Nonce(req[1])
        /\ req[1].expiration > CreationTime
        /\ ~(PKCEVerifier(req[1]) # <<>> /\ ImplicitFlow(req[1])[1])

\* a request with a flow option and a clock of its own was returned
C15_Witness ==
    /\ NewStateReturned
    /\ res[1].err = NoErr
    /\ res[1].opts.withNowFunc = <<StartTime + 2 * Second>>
    /\ PKCEVerifier(req[1]) # <<>>
    /\ req[1].expiration = StartTime + 2 * Second + 1

C15_WitnessStateGo ==
    /\ res # <<>> /\ res[1].op = "NewState_stateGo"
    /\ res[1].err = NoErr
    /\ req # <<>> /\ RedirectURL(req[1]) = ""

IsExpiredReturned == res # <<>> /\ res[1].op = "IsExpired"

\* C16 as stated: IsExpired() is true exactly when now + 1 second is at or
\* past the expiration, the instant of equality included.
C16_Original ==
    IsExpiredReturned =>
        (res[1].expired <=> now + StateExpirySkew >= req[1].expiration)

\* C16, amended: IsExpired() is true exactly when the expiration is
\* strictly before now + 1 second (now being the wall clock); at the
\* instant where now + 1 second equals the expiration it is false.
C16_IsExpiredStrict ==
    IsExpiredReturned =>
        (res[1].expired <=> now + StateExpirySkew > req[1].expiration)

\* IsExpired() was asked at the instant where now + 1 second is the
\* expiration, and answered false
C16_Witness ==
    /\ IsExpiredReturned
    /\ now + StateExpirySkew = req[1].expiration
    /\ ~res[1].expired

\* IsExpired() answered true within the skew, before the expiration
C16_WitnessSkew ==
    /\ IsExpiredReturned
    /\ now < req[1].expiration
    /\ res[1].expired

---------------------------------------------------------------------------
(* Properties of Config and ClientSecret, under SpecConfig *)

ConfigReturned == res # <<>> /\ res[1].op \in {"NewConfig", "Validate"}

ConfigAccepted == ConfigReturned /\ res[1].err = NoErr

\* C17: a Config that NewConfig or Validate accepts has an issuer that is
\* not empty, parses as a URL of scheme http or https, and has neither a
\* query nor a fragment.
C17_IssuerAccepted ==
    ConfigAccepted =>
        /\ res[1].c # <<>>
        /\ res[1].c[1].Issuer # ""
        /\ url_Parse(res[1].c[1].Issuer).ok
        /\ url_Parse(res[1].c[1].Issuer).scheme \in {"http", "https"}
        /\ url_Parse(res[1].c[1].Issuer).rawQuery = ""
        /\ url_Parse(res[1].c[1].Issuer).fragment = ""

\* the config handed in breaks a rule of Validate
ConfigViolates ==
    LET c == res[1].in[1]
    IN  \/ c.ClientId = "" \/ c.ClientSecret = "" \/ c.Issuer = ""
        \/ c.RedirectUrl = ""
        \/ ~url_Parse(c.Issuer).ok
        \/ url_Parse(c.Issuer).scheme \notin {"http", "https"}
        \/ c.SupportedSigningAlgs = <<>>
        \/ \E i \in 1..Len(c.SupportedSigningAlgs) :
              c.SupportedSigningAlgs[i] \notin supportedAlgorithms

\* C18: Validate rejects a nil config with NilParameter, and Validate and
\* NewConfig reject every config that breaks a validation rule with an
\* error that is InvalidParameter to errors.Is; NewConfig returns a nil
\* Config then.
C18_ValidateErrorKinds ==
    ConfigReturned =>
        IF res[1].in = <<>> THEN res[1].err = ErrNilParameter
        ELSE ConfigViolates =>
                /\ res[1].err = ErrInvalidParameter
                /\ res[1].op = "NewConfig" => res[1].c = <<>>

RenderReturned == res # <<>> /\ res[1].op = "Render"

\* C19: String() and MarshalJSON() of a ClientSecret are the redacted
\* literal whatever the secret is: two secrets, and two Configs that
\* differ in the secret only, render identically.
C19_SecretRedacted ==
    RenderReturned =>
        /\ res[1].str[1] = RedactedClientSecret
        /\ res[1].str[2] = RedactedClientSecret
        /\ res[1].json[1] = json_Marshal(RedactedClientSecret)
        /\ res[1].json[2] = json_Marshal(RedactedClientSecret)
        /\ res[1].configStr[1] = res[1].configStr[2]
        /\ res[1].configJson[1] = res[1].configJson[2]

\* two different secrets were rendered
C19_Witness ==
    /\ RenderReturned
    /\ res[1].secrets = <<"secret-1", "secret-2">>
    /\ res[1].str[1] = res[1].str[2]

---------------------------------------------------------------------------
(* Properties of UserInfo, under SpecUserInfo *)

UserInfoReturned == res # <<>> /\ res[1].op = "UserInfo"

\* UserInfo got its parameters and a response from the endpoint
UserInfoAnswered ==
    /\ UserInfoReturned
    /\ res[1].tokenSource # <<>>
    /\ res[1].before.kind = "ptr"
    /\ ~res[1].tp.disableUserInfo

\* the response was decoded into claims
UserInfoDecoded == res[1].claims.val = <<res[1].tp.replyUserinfo>>

UserInfoFaults ==
    LET vc == res[1].tp.replyUserinfo
    IN  {k \in {ErrInvalidSubject, ErrInvalidIssuer, ErrInvalidAudience} :
            \/ k = ErrInvalidSubject /\ vc.sub # res[1].sub
            \/ k = ErrInvalidIssuer /\ vc.iss # "" /\ vc.iss # p.config[1].Issuer
            \/ /\ k = ErrInvalidAudience
               /\ res[1].auds # <<>>
               /\ ~Overlap(vc.aud, UserInfoAudiences(p.config[1], res[1].auds))}

\* the kinds of error the parameters call for
UserInfoParamFaults ==
    {k \in {ErrNilParameter, ErrInvalidParameter} :
        \/ k = ErrNilParameter
           /\ (res[1].tokenSource = <<>> \/ res[1].before.kind = "nil")
        \/ k = ErrInvalidParameter /\ res[1].before.kind = "nonptr"}

C20_WitnessAudience ==
    /\ UserInfoAnswered
    /\ res[1].tp.replyUserinfo.sub = res[1].sub
    /\ res[1].err = ErrInvalidAudience
    /\ res[1].claims = res[1].before

---------------------------------------------------------------------------
(* The loopback rule of validRedirect, under SpecRedirect *)

\* the allowed URLs that parse
AllowedParsed ==
    {url_Parse(p.config[1].AllowedRedirectURLs[i]) :
        i \in {k \in 1..Len(p.config[1].AllowedRedirectURLs) :
                  url_Parse(p.config[1].AllowedRedirectURLs[k]).ok}}

\* a differs from the candidate u in its port and in nothing else
OtherPort(a, u) ==
    /\ a.port # u.port
    /\ [a EXCEPT !.port = ""] = [u EXCEPT !.port = ""]

\* C25: a candidate of a loopback host (localhost, 127.0.0.1, [::1]) is
\* accepted when an allowed URL has its scheme, host, path and query and
\* another port; for a host that is not a loopback host a differing port
\* gives UnauthorizedRedirectURI, and localhost does not match 127.0.0.1.
C25_LoopbackPorts ==
    (RedirectReturned /\ url_Parse(res[1].uri).ok) =>
        LET u == url_Parse(res[1].uri)
        IN  /\ (/\ u.hostname \in {"localhost", "127.0.0.1", "::1"}
                /\ \E a \in AllowedParsed : OtherPort(a, u))
               => res[1].err = NoErr
            /\ (/\ u.hostname \notin {"localhost", "127.0.0.1", "::1"}
                /\ \E a \in AllowedParsed : OtherPort(a, u)
                /\ ~Identical(res[1].uri))
               => res[1].err = ErrUnauthorizedRedirectURI
            /\ (/\ u.hostname = "localhost"
                /\ AllowedParsed # {}
                /\ \A a \in AllowedParsed : a.hostname # "localhost")
               => res[1].err = ErrUnauthorizedRedirectURI

\* localhost on another port than the allowed one was accepted
C25_Witness ==
    /\ RedirectReturned
    /\ res[1].uri = "https://localhost:9000"
    /\ StrListContains(p.config[1].AllowedRedirectURLs, "https://localhost:5000")
    /\ res[1].err = NoErr

\* [::2] on another port than the allowed one was refused
C25_WitnessNotLoopback ==
    /\ RedirectReturned
    /\ res[1].uri = "https://[::2]:9000"
    /\ StrListContains(p.config[1].AllowedRedirectURLs, "https://[::2]:5000")
    /\ res[1].err = ErrUnauthorizedRedirectURI

\* localhost was refused against 127.0.0.1
C25_WitnessLocalhost ==
    /\ RedirectReturned
    /\ res[1].uri = "https://localhost:5000"
    /\ StrListContains(p.config[1].AllowedRedirectURLs, "https://127.0.0.1:5000")
    /\ res[1].err = ErrUnauthorizedRedirectURI

---------------------------------------------------------------------------
(* The clock of IsExpired, under SpecState *)

\* C26: IsExpired() of a request created with WithNow compares the
\* expiration with the injected clock: with that clock held at the instant
\* of creation and expireIn above the skew, IsExpired() is false however
\* far the wall clock has moved.
C26_InjectedClock ==
    (IsExpiredReturned /\ req[1].nowFunc # <<>>) =>
        (res[1].expired <=>
            req[1].expiration < req[1].nowFunc[1] + StateExpirySkew)

---------------------------------------------------------------------------
(* The options of NewConfig, under SpecConfig *)

\* C27: the Config NewConfig returns carries each of its options in the
\* field of that option: WithScopes in Scopes, WithAudiences in Audiences,
\* WithProviderCA in ProviderCA.
C27_OptionsReflected ==
    (res # <<>> /\ res[1].op = "NewConfig" /\ res[1].err = NoErr) =>
        /\ res[1].c # <<>>
        /\ res[1].c[1].Scopes = res[1].opts.withScopes
        /\ res[1].c[1].Audiences = res[1].opts.withAudiences
        /\ res[1].c[1].ProviderCA = res[1].opts.withProviderCA

---------------------------------------------------------------------------
(* The order of the checks of VerifyIDToken, under SpecVerify *)

\* a call of VerifyIDToken has returned, whatever the token and the keys
AnyVerifyReturned == res # <<>> /\ res[1].op = "VerifyIDToken"

\* the kind of the first check of the list of spec.md 4.G.4 that the
\* token t fails for the request s, nil when it fails none
FirstFailing(t, s, jwks) ==
    IF t = <<>> \/ ~ChkParams(s) THEN ErrInvalidParameter
    ELSE IF ~ChkAlg(t[1]) THEN ErrUnsupportedAlg
    ELSE IF ~jwks THEN ErrInvalidJWKs
    ELSE IF ~ChkSig(t[1]) THEN ErrInvalidSignature
    ELSE IF ~ChkIss(t[1]) THEN ErrInvalidIssuer
    ELSE IF ~ChkExp(t[1]) THEN ErrExpiredToken
    ELSE IF ~ChkNbf(t[1]) THEN ErrInvalidNotBefore
    ELSE IF ~ChkIat(t[1]) THEN ErrInvalidIssuedAt
    ELSE IF ~ChkAud(t[1], s) THEN ErrInvalidAudience
    ELSE IF ~ChkAzp(t[1]) THEN ErrInvalidAuthorizedParty
    ELSE IF ~ChkNonce(t[1], s) THEN ErrInvalidNonce
    ELSE IF ~ChkAuthTime(t[1], s)
    THEN IF t[1].claims.auth_time = <<>> THEN ErrMissingClaim
         ELSE ErrExpiredAuthTime
    ELSE NoErr

C23_WitnessEmptyNonce ==
    /\ AnyVerifyReturned
    /\ res[1].s.nonce = ""
    /\ res[1].t # <<>>
    /\ res[1].err = ErrInvalidParameter

---------------------------------------------------------------------------
(* The tokens of the reply of the token endpoint, under Spec *)

\* the token endpoint answered the Exchange with a 2xx
TokenReplied ==
    /\ ExchangeReturned
    /\ res[1].reply # <<>>
    /\ res[1].reply[1].status = 200

\* C24: when the reply of the token endpoint has no access_token, Exchange
\* fails with MissingAccessToken whether or not the id_token is missing
\* too; when only the id_token is missing it fails with MissingIDToken.
C24_MissingTokens ==
    TokenReplied =>
        /\ res[1].reply[1].access_token = <<>> => res[1].err = ErrMissingAccessToken
        /\ (res[1].reply[1].access_token # <<>> /\ res[1].reply[1].id_token = <<>>)
              => res[1].err = ErrMissingIDToken

\* a reply without either token made Exchange fail with MissingAccessToken
C24_Witness ==
    /\ TokenReplied
    /\ res[1].reply[1].access_token = <<>>
    /\ res[1].reply[1].id_token = <<>>
    /\ res[1].err = ErrMissingAccessToken
    /\ res[1].tk = <<>>

\* a reply without the id_token only made Exchange fail with MissingIDToken
C24_WitnessIDToken ==
    /\ TokenReplied
    /\ res[1].reply[1].access_token # <<>>
    /\ res[1].reply[1].id_token = <<>>
    /\ res[1].err = ErrMissingIDToken

---------------------------------------------------------------------------
(* Short-lived and expired requests, under Spec *)

\* the request was made with the wall clock for less than the skew (the
\* requests of Spec are made at StartTime)
ShortLived ==
    /\ req # <<>>
    /\ req[1].nowFunc = <<>>
    /\ req[1].expiration - StartTime < StateExpirySkew

\* C28: a request made with 0 < expireIn < 1 second and the wall clock is
\* expired from its creation on, and an Exchange on it fails with
\* InvalidParameter at once and at any later time.
C28_ShortLivedExpired ==
    ShortLived =>
        /\ IsExpired(req[1], now)
        /\ (ExchangeReturned /\ p.config # <<>>) =>
              res[1].err = ErrInvalidParameter /\ res[1].tk = <<>>

\* an Exchange with the right state on a short-lived request failed
\* before the clock had moved
C28_Witness ==
    /\ ShortLived
    /\ ExchangeReturned
    /\ p.config # <<>>
    /\ now = StartTime
    /\ res[1].authState = ID(req[1])
    /\ res[1].authCode = "test-code"
    /\ res[1].err = ErrInvalidParameter

\* C29: no step changes a request once it is made, and the clock does not
\* go back; so a request that IsExpired() reports expired is reported
\* expired after every step, and no step is an Exchange that succeeds
\* on it.
C29_ExpiryPermanent ==
    [][req # <<>> =>
          /\ req' = req
          /\ now' >= now
          /\ IsExpired(req[1], now) =>
                /\ IsExpired(req'[1], now')
                /\ ~(res' # <<>> /\ res'[1].op = "Exchange" /\ res'[1].err = NoErr)]_vars

\* an Exchange with the right state and code failed on a request that
\* was alive when it was made and has expired since
C29_Witness ==
    /\ ExchangeReturned
    /\ p.config # <<>>
    /\ req[1].expiration - StartTime >= StateExpirySkew
    /\ now > StartTime
    /\ IsExpired(req[1], now)
    /\ res[1].authState = ID(req[1])
    /\ res[1].authCode = "test-code"
    /\ res[1].err = ErrInvalidParameter

---------------------------------------------------------------------------
(* The setters of the TestProvider for its JWKS endpoint, and             *)
(* specification SpecJWKS: VerifyIDToken against a TestProvider whose     *)
(* JWKS endpoint the test switches                                        *)

\* TestProvider.SetDisableJWKs
SetDisableJWKs(tp, disable) == [tp EXCEPT !.disableJWKs = disable]

\* fault: SetInvalidJWKS stores its argument
SetInvalidJWKS_stored(tp, invalid) == [tp EXCEPT !.invalidJWKs = invalid]

\* TestProvider.SetInvalidJWKS: the argument is not read
SetInvalidJWKS(tp, invalid) == [tp EXCEPT !.invalidJWKs = TRUE]

\* the tokens of SpecJWKS: none, the valid one, one of an algorithm the
\* Provider does not support, and one signed with another key
JWKSTokens(s) ==
    {<<>>, <<validToken(s)>>,
     <<[validToken(s) EXCEPT !.alg = "RS256"]>>,
     <<[validToken(s) EXCEPT !.signedWith = "other-key"]>>}

InitJWKS ==
    /\ now = StartTime
    /\ p = testNewProvider
    /\ req \in {NewState(MaxExpireIn, "http://localhost", o, "a", "b", StartTime).s :
                   o \in VerifyStOpts}
    /\ res = <<>>
    /\ idp = StartTestProvider
    /\ calls = <<>>

\* tp.SetDisableJWKs(disable)
CallSetDisableJWKs ==
    /\ res = <<>>
    /\ \E disable \in BOOLEAN :
          /\ idp' = SetDisableJWKs(idp, disable)
          /\ res' = <<[op |-> "SetDisableJWKs", disable |-> disable]>>
    /\ UNCHANGED <<now, p, req, calls>>

\* tp.SetInvalidJWKS(invalid)
CallSetInvalidJWKS ==
    /\ res = <<>>
    /\ \E invalid \in BOOLEAN :
          /\ idp' = SetInvalidJWKS(idp, invalid)
          /\ res' = <<[op |-> "SetInvalidJWKS", invalid |-> invalid]>>
    /\ UNCHANGED <<now, p, req, calls>>

\* a GET of the JWKS endpoint of the TestProvider
CallGetJWKS ==
    /\ res = <<>>
    /\ res' = <<[op |-> "GET jwks", reply |-> ServeHTTP_jwks(idp)]>>
    /\ UNCHANGED <<now, p, req, idp, calls>>

\* VerifyIDToken of a Provider of the TestProvider as the setters left it
CallVerifyIDTokenJWKS ==
    /\ res = <<>>
    /\ \E t \in JWKSTokens(req[1]), nonce \in {req[1].nonce, ""} :
          res' = VerifyResult(t, [req[1] EXCEPT !.nonce = nonce], idp)
    /\ UNCHANGED <<now, p, req, idp, calls>>

NextJWKS ==
    \/ CallSetDisableJWKs
    \/ CallSetInvalidJWKS
    \/ CallGetJWKS
    \/ CallVerifyIDTokenJWKS
    \/ Tick
    \/ Return

SpecJWKS == InitJWKS /\ [][NextJWKS]_vars

\* the call that returns after the step has to fetch the JWKS: it is a
\* VerifyIDToken whose parameters and algorithm are accepted
MustFetchJWKS(r) ==
    /\ r.op = "VerifyIDToken"
    /\ r.t # <<>>
    /\ ChkParams(r.s)
    /\ ChkAlg(r.t[1])

\* C30: SetInvalidJWKS leaves the JWKS endpoint invalid whatever its
\* argument, and nothing makes it valid again; while it is invalid, a GET
\* of the endpoint is answered with a body that is not a key set, or with
\* 404 when the JWKs are disabled, and a VerifyIDToken that has to fetch
\* the JWKS fails with InvalidJWKs.
C30_InvalidJWKSForGood ==
    [][/\ (res' # <<>> /\ res'[1].op = "SetInvalidJWKS") => idp'.invalidJWKs
       /\ idp.invalidJWKs => idp'.invalidJWKs
       /\ (idp'.invalidJWKs /\ res' # <<>> /\ res'[1].op = "GET jwks") =>
             /\ ~res'[1].reply.keyset
             /\ res'[1].reply.status = IF idp'.disableJWKs THEN 404 ELSE 200
       /\ (idp'.invalidJWKs /\ res' # <<>> /\ MustFetchJWKS(res'[1])) =>
             res'[1].err = ErrInvalidJWKs]_vars

\* SetInvalidJWKS(false) has returned and the endpoint is invalid
C30_Witness ==
    /\ res # <<>>
    /\ res[1].op = "SetInvalidJWKS"
    /\ ~res[1].invalid
    /\ idp.invalidJWKs

\* a VerifyIDToken of the valid token failed with InvalidJWKs against an
\* endpoint that is invalid and not disabled
C30_WitnessVerify ==
    /\ res # <<>>
    /\ res[1].op = "VerifyIDToken"
    /\ res[1].t = <<validToken(req[1])>>
    /\ res[1].s = req[1]
    /\ idp.invalidJWKs
    /\ ~idp.disableJWKs
    /\ res[1].err = ErrInvalidJWKs

---------------------------------------------------------------------------
(* Provider.Done and the calls after it (spec.md 4.G.1 step 4, 5          *)
(* Lifecycle), and specification SpecDone.  The Provider of this section  *)
(* carries, beside its config, the handles of TestProvider_Done: nil      *)
(* tells the nil *Provider, provider the discovery handle, client the     *)
(* HTTP client, backgroundCtxCancel the cancel function (<<>> for nil),   *)
(* done whether Done() has run, and ctx the background context with the   *)
(* number of times it went from live to cancelled.                        *)

\* the error of a call on a Provider that is done
ErrCancelled == "Cancelled"

\* the background context of a new Provider
liveCtx == [cancelled |-> FALSE, cancels |-> 0]

\* fault: Done() cancels on every call
Done_everyCall(prov) ==
    IF prov.nil THEN [p |-> prov, failed |-> FALSE]
    ELSE [p |-> [prov EXCEPT !.done = TRUE,
                             !.ctx = IF prov.backgroundCtxCancel = <<>> THEN @
                                     ELSE [cancelled |-> TRUE,
                                           cancels |-> @.cancels + 1]],
          failed |-> FALSE]

\* Done(): nothing on a nil Provider; cancels the background context when
\* there is a cancel function and the context is live
Done(prov) ==
    IF prov.nil THEN [p |-> prov, failed |-> FALSE]
    ELSE [p |-> [prov EXCEPT !.done = TRUE,
                             !.ctx = IF prov.backgroundCtxCancel = <<>> \/ @.cancelled
                                     THEN @
                                     ELSE [cancelled |-> TRUE,
                                           cancels |-> @.cancels + 1]],
          failed |-> FALSE]

\* the error of a call of the Provider that would return err: a Provider
\* that is done returns the cancellation error
AfterDone(prov, err) == IF prov.done THEN ErrCancelled ELSE err

\* the Provider of testNewProvider with its handles
doneProvider ==
    [config |-> testNewProvider.config, nil |-> FALSE, provider |-> TRUE,
     client |-> TRUE, backgroundCtxCancel |-> <<"cancel">>, done |-> FALSE,
     ctx |-> liveCtx]

\* the Providers of the table of TestProvider_Done, and the nil Provider
DoneProviders ==
    {doneProvider,
     [doneProvider EXCEPT !.provider = FALSE],
     [doneProvider EXCEPT !.client = FALSE],
     [doneProvider EXCEPT !.backgroundCtxCancel = <<>>],
     [doneProvider EXCEPT !.nil = TRUE, !.config = <<>>, !.provider = FALSE,
                          !.client = FALSE, !.backgroundCtxCancel = <<>>]}

\* the Provider has every handle a call needs
Initialized(prov) ==
    ~prov.nil /\ prov.provider /\ prov.client /\ prov.backgroundCtxCancel # <<>>

InitDone ==
    /\ now = StartTime
    /\ p \in DoneProviders
    /\ req = <<>>
    /\ res = <<>>
    /\ idp = StartTestProvider
    /\ calls = <<>>

\* p.Done()
CallDone ==
    /\ res = <<>>
    /\ p' = Done(p).p
    /\ res' = <<[op |-> "Done", before |-> p, failed |-> Done(p).failed]>>
    /\ UNCHANGED <<now, req, idp, calls>>

\* p.AuthURL for the request of the attempt
CallAuthURLDone ==
    /\ res = <<>>
    /\ req # <<>>
    /\ Initialized(p)
    /\ res' = <<[op |-> "AuthURL", call |-> TRUE, done |-> p.done,
                 err |-> AfterDone(p, AuthURL(p, req).err)]>>
    /\ UNCHANGED <<now, p, req, idp, calls>>

\* p.Exchange with the state and the code of the callback
CallExchangeDone ==
    /\ res = <<>>
    /\ req # <<>>
    /\ Initialized(p)
    /\ \E authState \in {ID(req[1]), "not-equal"},
          tp \in ExchangeTestProviders(req[1]) :
          res' = <<[op |-> "Exchange", call |-> TRUE, done |-> p.done,
                    err |-> AfterDone(p, Exchange(p, req[1], authState, "test-code",
                                                  tp, now).err)]>>
    /\ UNCHANGED <<now, p, req, idp, calls>>

\* p.VerifyIDToken for the request of the attempt
CallVerifyIDTokenDone ==
    /\ res = <<>>
    /\ req # <<>>
    /\ Initialized(p)
    /\ \E t \in JWKSTokens(req[1]) :
          res' = <<[op |-> "VerifyIDToken", call |-> TRUE, done |-> p.done,
                    err |-> AfterDone(p, VerifyIDToken(p, t, req[1],
                                                       ServeHTTP_jwks(idp), now).err)]>>
    /\ UNCHANGED <<now, p, req, idp, calls>>

\* p.UserInfo
CallUserInfoDone ==
    /\ res = <<>>
    /\ Initialized(p)
    /\ \E tokenSource \in {<<>>, <<"dummy_access_token">>},
          claims \in UserInfoDests, tp \in UserInfoTestProviders :
          /\ UserInfoCalled(<<>>, tp)
          /\ res' = <<[op |-> "UserInfo", call |-> TRUE, done |-> p.done,
                       err |-> AfterDone(p, UserInfo(p, tokenSource, defaultSub, claims,
                                                     <<>>, tp).err)]>>
    /\ UNCHANGED <<now, p, req, idp, calls>>

NextDone ==
    \/ CallNewState(ExchangeStOpts, {redirect})
    \/ CallDone
    \/ CallAuthURLDone
    \/ CallExchangeDone
    \/ CallVerifyIDTokenDone
    \/ CallUserInfoDone
    \/ Return

SpecDone == InitDone /\ [][NextDone]_vars

\* a call of the Provider has returned
ProviderCallReturned ==
    /\ res # <<>>
    /\ res[1].op \in {"AuthURL", "Exchange", "VerifyIDToken", "UserInfo"}

C21_WitnessCall ==
    /\ ProviderCallReturned
    /\ res[1].op = "Exchange"
    /\ p.done
    /\ res[1].err = ErrCancelled
    /\ \E tp \in ExchangeTestProviders(req[1]) :
          Exchange(p, req[1], ID(req[1]), "test-code", tp, now).err = NoErr

\* Done() has returned on the nil Provider
C21_WitnessNil ==
    /\ res # <<>>
    /\ res[1].op = "Done"
    /\ p.nil

---------------------------------------------------------------------------
(* Specification SpecConcurrent: VerifyIDToken calls of several threads   *)
(* on one Provider (spec.md 5).  The refresh of the JWKS is guarded by    *)
(* one mutex, and a call that waited while another call's refresh ran     *)
(* uses what that refresh fetched.  A call does not rely on what a        *)
(* refresh fetched before the call began: the test                        *)
(* missing-and-disabled-jwks expects InvalidJWKs of a Provider that has   *)
(* verified tokens of the same key ID before.                             *)

\* the number of threads, and of calls they make in all
NThreads == 2
MaxCalls == 3

Threads == 1..NThreads

\* the calls in progress: where each thread's call is, the number of
\* refreshes that had ended when it began, what it returned, what the
\* last refresh fetched, the holder of the mutex, the requests of the
\* JWKS endpoint in flight, and the counts of requests sent, of refreshes
\* ended and of calls begun
noCalls ==
    [pc |-> [t \in Threads |-> "idle"],
     seen |-> [t \in Threads |-> 0],
     err |-> [t \in Threads |-> NoErr],
     cache |-> <<>>,
     mu |-> <<>>,
     inflight |-> 0,
     fetches |-> 0,
     refreshes |-> 0,
     begun |-> 0]

InitConcurrent ==
    /\ now = StartTime
    /\ p = testNewProvider
    /\ req \in {NewState(MaxExpireIn, "http://localhost", o, "a", "b", StartTime).s :
                   o \in VerifyStOpts}
    /\ res = <<>>
    /\ idp = StartTestProvider
    /\ calls = noCalls

\* a thread calls VerifyIDToken with the valid token: the parameters and
\* the algorithm are accepted, and the call turns to the JWKS
VerifyBegin(t) ==
    /\ calls.pc[t] = "idle"
    /\ calls.begun < MaxCalls
    /\ calls' = [calls EXCEPT !.pc[t] = "wait",
                              !.seen[t] = calls.refreshes,
                              !.begun = @ + 1]
    /\ UNCHANGED <<now, p, req, res, idp>>

\* the call takes the mutex and sends the GET of the JWKS endpoint
JWKSStartFetch(t) ==
    /\ calls.pc[t] = "wait"
    /\ calls.mu = <<>>
    /\ calls.refreshes = calls.seen[t]
    /\ calls' = [calls EXCEPT !.pc[t] = "fetching",
                              !.mu = <<t>>,
                              !.inflight = @ + 1,
                              !.fetches = @ + 1]
    /\ UNCHANGED <<now, p, req, res, idp>>

\* the reply of the JWKS endpoint arrives: the call keeps it and gives
\* the mutex back
JWKSEndFetch(t) ==
    /\ calls.pc[t] = "fetching"
    /\ calls' = [calls EXCEPT !.pc[t] = "verify",
                              !.cache = <<ServeHTTP_jwks(idp)>>,
                              !.mu = <<>>,
                              !.inflight = @ - 1,
                              !.refreshes = @ + 1]
    /\ UNCHANGED <<now, p, req, res, idp>>

\* a refresh has ended while the call waited: the call uses what it
\* fetched
JWKSShared(t) ==
    /\ calls.pc[t] = "wait"
    /\ calls.mu = <<>>
    /\ calls.refreshes > calls.seen[t]
    /\ calls' = [calls EXCEPT !.pc[t] = "verify"]
    /\ UNCHANGED <<now, p, req, res, idp>>

\* the call runs its checks with the JWKS and returns
VerifyFinish(t) ==
    /\ calls.pc[t] = "verify"
    /\ calls' = [calls EXCEPT
                    !.pc[t] = "done",
                    !.err[t] = VerifyIDToken(p, <<validToken(req[1])>>, req[1],
                                             calls.cache[1], now).err]
    /\ UNCHANGED <<now, p, req, res, idp>>

\* the thread takes the return values
VerifyReturn(t) ==
    /\ calls.pc[t] = "done"
    /\ calls' = [calls EXCEPT !.pc[t] = "idle", !.err[t] = NoErr]
    /\ UNCHANGED <<now, p, req, res, idp>>

NextConcurrent ==
    \E t \in Threads :
        \/ VerifyBegin(t)
        \/ JWKSStartFetch(t)
        \/ JWKSEndFetch(t)
        \/ JWKSShared(t)
        \/ VerifyFinish(t)
        \/ VerifyReturn(t)

SpecConcurrent == InitConcurrent /\ [][NextConcurrent]_vars

C22_SucceedSingleFlight ==
    /\ \A t \in Threads : calls.pc[t] = "done" => calls.err[t] = NoErr
    /\ calls.inflight <= 1

====
